---- MODULE Spec2Model ----
(***************************************************************************)
(* Quest lifecycle of chris01-com/botv1: bot/quest_manager.py on top of    *)
(* the two persistence back ends bot/json_database.py (flat file, the one  *)
(* main.py constructs) and bot/database.py (PostgreSQL, the one the        *)
(* QuestManager is typed against).                                         *)
(*                                                                         *)
(* Time is counted in ticks, TicksPerHour ticks to the hour; the clock     *)
(* `now` stands for datetime.now() and moves through a small set of        *)
(* instants placed around the 24 hour boundaries.  Every handler runs      *)
(* atomically (one asyncio task at a time) and reads the clock once.       *)
(***************************************************************************)
EXTENDS Integers, Sequences, FiniteSets, TLC

\* ------------------------------------------------------------------ bounds
MaxDays == 1
TicksPerHour == 2
MaxTasks == 2
MaxCount == 2
MaxLeaders == 3

Hours(h) == h * TicksPerHour

\* the instants at which the clock can stand: the start, the last tick
\* before the first 24 hour boundary, and every 24 hour boundary
Instants ==
    {0, Hours(24) - 1} \cup {d * Hours(24) : d \in 1..MaxDays}

QuestIds == {"q1"}
AllQuestIds == {"q1", "q2"}
UserIds == {1, 2}
CreatorIds == {1}
GuildIds == {10, 20}
RoleIds == {100, 200, 300}
RequiredRoleSets == {{}, {100, 200}}
CallerRoleSets == {{}, {100}, {300}, {100, 200}}
ChannelIds == {7}
ProofTexts == {"done"}
ProofImageLists == {<<"img1">>}
Backends == {"json", "postgres"}

\* ------------------------------------------------- bot/models.py constants
AVAILABLE == "available"
ACCEPTED == "accepted"
COMPLETED == "completed"
APPROVED == "approved"
REJECTED == "rejected"
CANCELLED == "cancelled"

QuestRank_NORMAL == "normal"
QuestCategory_OTHER == "other"

\* Python's None for an optional integer (timestamp, channel id)
None == -1

\* Python's None for an optional record (Optional[Quest], Optional[QuestProgress])
NoRecord == [none |-> TRUE]
IsNone(r) == "none" \in DOMAIN r

VARIABLES
    backend,         \* which persistence class the QuestManager was given
    now,             \* datetime.now()
    quests,          \* the quests table / JSONDatabase.quests
    quest_progress,  \* the quest_progress table / JSONDatabase.quest_progress
    last,            \* the most recent engine call and what it returned
    rejected_at,     \* history: when the current rejected attempt of a pair
                     \* was rejected (None when the pair is not rejected)
    probe,           \* one evaluation of the accept precondition chain
    user_stats,      \* the user_stats table / JSONDatabase.user_stats
    channel_config,  \* the channel_config table / JSONDatabase.channel_config
    tasks            \* the engine calls in flight, each at an await point

vars == <<backend, now, quests, quest_progress, last, rejected_at, probe,
          user_stats, channel_config, tasks>>

\* ----------------------------------------------------------- the records
\* models.Quest as QuestManager.create_quest builds it (created_at, which
\* no operation reads, is left out)
Quest(quest_id, creator_id, guild_id, rank, category, required_role_ids) ==
    [quest_id |-> quest_id,
     title |-> "title",
     description |-> "description",
     creator_id |-> creator_id,
     guild_id |-> guild_id,
     requirements |-> "",
     reward |-> "",
     rank |-> rank,
     category |-> category,
     status |-> AVAILABLE,
     required_role_ids |-> required_role_ids]

\* models.QuestProgress with its dataclass defaults
QuestProgress(quest_id, user_id, guild_id, status, accepted_at, accepted_channel_id) ==
    [quest_id |-> quest_id,
     user_id |-> user_id,
     guild_id |-> guild_id,
     status |-> status,
     accepted_at |-> accepted_at,
     completed_at |-> None,
     proof_text |-> "",
     proof_image_urls |-> << >>,
     approval_status |-> "",
     accepted_channel_id |-> accepted_channel_id]

\* --------------------------------------------------- the persistence port
\* datetime.isoformat() / datetime.fromisoformat(): the flat-file store keeps
\* timestamps as ISO strings, None stays None
isoformat(t) == IF t = None THEN <<"null">> ELSE <<"iso", t>>
fromisoformat(s) == IF s[1] = "null" THEN None ELSE s[2]

\* mutant of progress_rows: rows are keyed by the quest alone
progress_rows_by_quest(P, user_id, quest_id) ==
    {p \in P : p.quest_id = quest_id}

\* the rows of progress set P stored for (user_id, quest_id)
progress_rows(P, user_id, quest_id) ==
    {p \in P : p.user_id = user_id /\ p.quest_id = quest_id}

\* JSONDatabase.save_quest_progress: the dict entry of the key
\* f"{user_id}_{quest_id}" is replaced as a whole
json_save_quest_progress(P, progress) ==
    LET data == [progress EXCEPT
                    !.accepted_at = isoformat(progress.accepted_at),
                    !.completed_at = isoformat(progress.completed_at)]
        row == [data EXCEPT
                    !.accepted_at = fromisoformat(data.accepted_at),
                    !.completed_at = fromisoformat(data.completed_at)]
    IN  (P \ progress_rows(P, progress.user_id, progress.quest_id)) \cup {row}

\* mutant of pg_save_quest_progress: a plain INSERT on a table without the
\* UNIQUE(quest_id, user_id) constraint
pg_save_quest_progress_plain(P, progress) ==
    P \cup {progress}

\* Database.save_quest_progress: INSERT ... ON CONFLICT (quest_id, user_id)
\* DO UPDATE SET of six columns; accepted_at and guild_id are not among them
pg_save_quest_progress(P, progress) ==
    IF progress_rows(P, progress.user_id, progress.quest_id) = {}
    THEN P \cup {progress}
    ELSE {IF p.user_id = progress.user_id /\ p.quest_id = progress.quest_id
          THEN [p EXCEPT !.status = progress.status,
                         !.completed_at = progress.completed_at,
                         !.proof_text = progress.proof_text,
                         !.proof_image_urls = progress.proof_image_urls,
                         !.approval_status = progress.approval_status,
                         !.accepted_channel_id = progress.accepted_channel_id]
          ELSE p : p \in P}

save_quest_progress(P, progress) ==
    IF backend = "json"
    THEN json_save_quest_progress(P, progress)
    ELSE pg_save_quest_progress(P, progress)

\* get_user_quest_progress: the row of the pair, the most recently accepted
\* one if there were several (ORDER BY accepted_at DESC LIMIT 1)
get_user_quest_progress(P, user_id, quest_id) ==
    LET rows == progress_rows(P, user_id, quest_id)
    IN  IF rows = {} THEN NoRecord
        ELSE CHOOSE p \in rows : \A r \in rows : r.accepted_at <= p.accepted_at

\* get_quest
get_quest(Q, quest_id) ==
    IF \E q \in Q : q.quest_id = quest_id
    THEN CHOOSE q \in Q : q.quest_id = quest_id
    ELSE NoRecord

\* JSONDatabase.save_quest: the dict entry of quest_id is replaced
json_save_quest(Q, quest) ==
    {q \in Q : q.quest_id # quest.quest_id} \cup {quest}

\* Database.save_quest: INSERT ... ON CONFLICT (quest_id) DO UPDATE SET of
\* eight columns; creator_id and guild_id are not among them
pg_save_quest(Q, quest) ==
    IF \A q \in Q : q.quest_id # quest.quest_id
    THEN Q \cup {quest}
    ELSE {IF q.quest_id = quest.quest_id
          THEN [q EXCEPT !.title = quest.title,
                         !.description = quest.description,
                         !.requirements = quest.requirements,
                         !.reward = quest.reward,
                         !.rank = quest.rank,
                         !.category = quest.category,
                         !.status = quest.status,
                         !.required_role_ids = quest.required_role_ids]
          ELSE q : q \in Q}

save_quest(Q, quest) ==
    IF backend = "json" THEN json_save_quest(Q, quest) ELSE pg_save_quest(Q, quest)

\* the tuple get_pending_approvals returns for progress p of quest q
PendingEntry(p, q) ==
    <<p.quest_id, p.user_id, p.proof_text, p.proof_image_urls, q.title>>

\* mutant of json_get_pending_approvals: the status of the entry is not looked at
json_get_pending_approvals_any_status(Q, P, creator_id, guild_id) ==
    {PendingEntry(p, get_quest(Q, p.quest_id)) :
        p \in {r \in P : /\ r.guild_id = guild_id
                         /\ \E q \in Q : q.quest_id = r.quest_id
                         /\ get_quest(Q, r.quest_id).creator_id = creator_id}}

\* JSONDatabase.get_pending_approvals: the progress entries of the guild with
\* status 'completed' whose quest id is stored with that creator (the
\* entries as a set; the order of the returned list is left out)
json_get_pending_approvals(Q, P, creator_id, guild_id) ==
    {PendingEntry(p, get_quest(Q, p.quest_id)) :
        p \in {r \in P : /\ r.guild_id = guild_id /\ r.status = "completed"
                         /\ \E q \in Q : q.quest_id = r.quest_id
                         /\ get_quest(Q, r.quest_id).creator_id = creator_id}}

\* Database.get_pending_approvals: quest_progress JOIN quests ON quest_id
\* WHERE q.creator_id = $1 AND qp.guild_id = $2 AND qp.status = 'completed'
pg_get_pending_approvals(Q, P, creator_id, guild_id) ==
    {PendingEntry(row[1], row[2]) :
        row \in {j \in P \X Q : /\ j[1].quest_id = j[2].quest_id
                                /\ j[2].creator_id = creator_id
                                /\ j[1].guild_id = guild_id
                                /\ j[1].status = "completed"}}

\* QuestManager.get_pending_approvals
get_pending_approvals(Q, P, creator_id, guild_id) ==
    IF backend = "json" THEN json_get_pending_approvals(Q, P, creator_id, guild_id)
    ELSE pg_get_pending_approvals(Q, P, creator_id, guild_id)

\* ------------------------------------------------------ bot/permissions.py
\* mutant of user_has_required_roles: every required role must be held
user_has_all_required_roles(user_role_ids, required_role_ids) ==
    \/ required_role_ids = {}
    \/ \A role_id \in required_role_ids : role_id \in user_role_ids

\* user_has_required_roles: any() over the required ids
user_has_required_roles(user_role_ids, required_role_ids) ==
    \/ required_role_ids = {}
    \/ \E role_id \in required_role_ids : role_id \in user_role_ids

\* --------------------------------------------------- bot/quest_manager.py
\* mutant of is_active: the completed status left out of the list
is_active_accepted_only(existing_progress) ==
    /\ ~IsNone(existing_progress)
    /\ existing_progress.status \in {ACCEPTED}

\* accept_quest, line 65: the user already holds the quest
is_active(existing_progress) ==
    /\ ~IsNone(existing_progress)
    /\ existing_progress.status \in {ACCEPTED, COMPLETED}

\* mutant of in_cooldown: <= in place of <
in_cooldown_inclusive(existing_progress, t) ==
    /\ ~IsNone(existing_progress)
    /\ existing_progress.status = REJECTED
    /\ existing_progress.accepted_at # None
    /\ t <= existing_progress.accepted_at + Hours(24)

\* accept_quest, lines 67-72: a rejected attempt whose 24 hours are not over
in_cooldown(existing_progress, t) ==
    /\ ~IsNone(existing_progress)
    /\ existing_progress.status = REJECTED
    /\ existing_progress.accepted_at # None
    /\ t < existing_progress.accepted_at + Hours(24)

\* accept_quest, lines 78-81: the role requirement, looked at only when both
\* lists are truthy
lacks_role(quest, user_role_ids) ==
    /\ quest.required_role_ids # {}
    /\ user_role_ids # {}
    /\ ~user_has_required_roles(user_role_ids, quest.required_role_ids)

\* mutant of hours_remaining: the remaining time is rounded up
hours_remaining_rounded_up(existing_progress, t) ==
    LET remaining_time == existing_progress.accepted_at + Hours(24) - t
    IN  IF remaining_time >= 0
        THEN (remaining_time + Hours(1) - 1) \div Hours(1)
        ELSE -((-remaining_time) \div Hours(1))

\* the hours of the cooldown message:
\* int((cooldown_end - datetime.now()).total_seconds() / 3600); int() rounds
\* toward zero
hours_remaining(existing_progress, t) ==
    LET remaining_time == existing_progress.accepted_at + Hours(24) - t
    IN  IF remaining_time >= 0
        THEN remaining_time \div Hours(1)
        ELSE -((-remaining_time) \div Hours(1))

\* mutant of accept_error: the role requirement checked before the existing
\* progress
accept_error_roles_first(quest, existing_progress, user_role_ids, t) ==
    IF IsNone(quest) THEN "NotFound"
    ELSE IF quest.status # AVAILABLE THEN "NotAvailable"
    ELSE IF lacks_role(quest, user_role_ids) THEN "MissingRole"
    ELSE IF is_active(existing_progress) THEN "AlreadyActive"
    ELSE IF in_cooldown(existing_progress, t) THEN "CooldownActive"
    ELSE "ok"

\* the precondition chain of QuestManager.accept_quest; the error messages
\* are named by the kind they stand for:
\*   "Quest not found!"                                   NotFound
\*   "Quest is not available for acceptance!"             NotAvailable
\*   "You have already accepted this quest!"              AlreadyActive
\*   "You must wait N hours before attempting ... again!" CooldownActive
\*   "You don't have the required roles for this quest!"  MissingRole
\*   ""                                                   ok
accept_error(quest, existing_progress, user_role_ids, t) ==
    IF IsNone(quest) THEN "NotFound"
    ELSE IF quest.status # AVAILABLE THEN "NotAvailable"
    ELSE IF is_active(existing_progress) THEN "AlreadyActive"
    ELSE IF in_cooldown(existing_progress, t) THEN "CooldownActive"
    ELSE IF lacks_role(quest, user_role_ids) THEN "MissingRole"
    ELSE "ok"

\* mutant of can_complete: a completed progress can be completed again
can_complete_resubmit(progress) ==
    ~IsNone(progress) /\ progress.status \in {ACCEPTED, COMPLETED}

\* complete_quest, lines 100-104: only an accepted progress can be completed
can_complete(progress) == ~IsNone(progress) /\ progress.status = ACCEPTED

\* mutant of complete_update: the approval tag is not set
complete_update_no_tag(progress, proof_text, proof_image_urls, t) ==
    [progress EXCEPT !.status = COMPLETED,
                     !.completed_at = t,
                     !.proof_text = proof_text,
                     !.proof_image_urls = proof_image_urls]

\* complete_quest, lines 107-111
complete_update(progress, proof_text, proof_image_urls, t) ==
    [progress EXCEPT !.status = COMPLETED,
                     !.completed_at = t,
                     !.proof_text = proof_text,
                     !.proof_image_urls = proof_image_urls,
                     !.approval_status = "pending"]

\* mutant of can_approve: an accepted progress can be decided too
can_approve_unsubmitted(progress) ==
    ~IsNone(progress) /\ progress.status \in {ACCEPTED, COMPLETED}

\* approve_quest, lines 119-123: only a completed progress can be decided
can_approve(progress) == ~IsNone(progress) /\ progress.status = COMPLETED

\* mutant of approve_update: the decision also drops the submitted proof
approve_update_clears_proof(progress, approved) ==
    IF approved
    THEN [progress EXCEPT !.status = APPROVED, !.approval_status = "approved", !.proof_text = "", !.proof_image_urls = << >>]
    ELSE [progress EXCEPT !.status = REJECTED, !.approval_status = "rejected", !.proof_text = "", !.proof_image_urls = << >>]

\* mutant of approve_update: the decision sets the status and leaves the tag
approve_update_status_only(progress, approved) ==
    IF approved
    THEN [progress EXCEPT !.status = APPROVED]
    ELSE [progress EXCEPT !.status = REJECTED]

\* approve_quest, lines 125-130
approve_update(progress, approved) ==
    IF approved
    THEN [progress EXCEPT !.status = APPROVED, !.approval_status = "approved"]
    ELSE [progress EXCEPT !.status = REJECTED, !.approval_status = "rejected"]

StatusOf(progress) == IF IsNone(progress) THEN "none" ELSE progress.status

Call(op, quest_id, user_id, result, pre, ret) ==
    [op |-> op, quest_id |-> quest_id, user_id |-> user_id,
     result |-> result, pre |-> pre, ret |-> ret]

NoProbe == [set |-> FALSE]

\* the asyncio tasks running an engine call; none is in flight while the
\* handlers run one at a time
TaskIds == 1..MaxTasks
Idle == [pc |-> "idle"]
NoTasks == [t \in TaskIds |-> Idle]

Init ==
    /\ backend \in Backends
    /\ now = 0
    /\ quests = {}
    /\ quest_progress = {}
    /\ last = Call("init", "", 0, "ok", "none", NoRecord)
    /\ rejected_at = [k \in UserIds \X AllQuestIds |-> None]
    /\ probe = NoProbe
    /\ user_stats = {}
    /\ channel_config = {}
    /\ tasks = NoTasks

\* mutant of create_quest: the accepted counters of the stats records are
\* reset when a quest is created
create_quest_resets_stats(quest_id, creator_id, guild_id, rank, category, required_role_ids) ==
    LET quest == Quest(quest_id, creator_id, guild_id, rank, category,
                       required_role_ids)
    IN  /\ quests' = save_quest(quests, quest)
        /\ user_stats' = {[s EXCEPT !.quests_accepted = 0] : s \in user_stats}
        /\ last' = Call("create", quest_id, creator_id, "ok", "none", quest)
        /\ UNCHANGED <<backend, now, quest_progress, rejected_at, probe, channel_config, tasks>>

\* QuestManager.create_quest; str(uuid.uuid4())[:8] is a random token that
\* is not compared with the stored ids
create_quest(quest_id, creator_id, guild_id, rank, category, required_role_ids) ==
    LET quest == Quest(quest_id, creator_id, guild_id, rank, category,
                       required_role_ids)
    IN  /\ quests' = save_quest(quests, quest)
        /\ last' = Call("create", quest_id, creator_id, "ok", "none", quest)
        /\ UNCHANGED <<backend, now, quest_progress, rejected_at, probe, user_stats, channel_config, tasks>>

\* mutant of accept_quest: the progress is created and saved before the role
\* requirement is checked
accept_quest_saves_early(quest_id, user_id, user_role_ids, accepted_channel_id) ==
    LET quest == get_quest(quests, quest_id)
        existing_progress == get_user_quest_progress(quest_progress, user_id, quest_id)
        error == accept_error(quest, existing_progress, user_role_ids, now)
    IN  IF error \notin {"ok", "MissingRole"}
        THEN /\ last' = Call("accept", quest_id, user_id, error,
                             StatusOf(existing_progress), NoRecord)
             /\ UNCHANGED <<backend, now, quests, quest_progress, rejected_at, probe, user_stats, channel_config, tasks>>
        ELSE LET progress == QuestProgress(quest_id, user_id, quest.guild_id,
                                           ACCEPTED, now, accepted_channel_id)
             IN  /\ quest_progress' = save_quest_progress(quest_progress, progress)
                 /\ last' = Call("accept", quest_id, user_id, error,
                                 StatusOf(existing_progress),
                                 IF error = "ok" THEN progress ELSE NoRecord)
                 /\ rejected_at' = [rejected_at EXCEPT ![<<user_id, quest_id>>] = None]
                 /\ UNCHANGED <<backend, now, quests, probe, user_stats, channel_config, tasks>>

\* QuestManager.accept_quest
accept_quest(quest_id, user_id, user_role_ids, accepted_channel_id) ==
    LET quest == get_quest(quests, quest_id)
        existing_progress == get_user_quest_progress(quest_progress, user_id, quest_id)
        error == accept_error(quest, existing_progress, user_role_ids, now)
    IN  IF error # "ok"
        THEN /\ last' = Call("accept", quest_id, user_id, error,
                             StatusOf(existing_progress), NoRecord)
             /\ UNCHANGED <<backend, now, quests, quest_progress, rejected_at, probe, user_stats, channel_config, tasks>>
        ELSE LET progress == QuestProgress(quest_id, user_id, quest.guild_id,
                                           ACCEPTED, now, accepted_channel_id)
             IN  /\ quest_progress' = save_quest_progress(quest_progress, progress)
                 /\ last' = Call("accept", quest_id, user_id, "ok",
                                 StatusOf(existing_progress), progress)
                 /\ rejected_at' = [rejected_at EXCEPT ![<<user_id, quest_id>>] = None]
                 /\ UNCHANGED <<backend, now, quests, probe, user_stats, channel_config, tasks>>

\* QuestManager.complete_quest
complete_quest(quest_id, user_id, proof_text, proof_image_urls) ==
    LET progress == get_user_quest_progress(quest_progress, user_id, quest_id)
    IN  IF ~can_complete(progress)
        THEN /\ last' = Call("complete", quest_id, user_id, "None",
                             StatusOf(progress), NoRecord)
             /\ UNCHANGED <<backend, now, quests, quest_progress, rejected_at, probe, user_stats, channel_config, tasks>>
        ELSE LET updated == complete_update(progress, proof_text,
                                            proof_image_urls, now)
             IN  /\ quest_progress' = save_quest_progress(quest_progress, updated)
                 /\ last' = Call("complete", quest_id, user_id, "ok",
                                 StatusOf(progress), updated)
                 /\ UNCHANGED <<backend, now, quests, rejected_at, probe, user_stats, channel_config, tasks>>

\* mutant of approve_quest: an approval also closes the quest itself
approve_quest_closes_quest(quest_id, user_id, approved) ==
    LET progress == get_user_quest_progress(quest_progress, user_id, quest_id)
    IN  IF ~can_approve(progress)
        THEN /\ last' = Call("approve", quest_id, user_id, "None",
                             StatusOf(progress), NoRecord)
             /\ UNCHANGED <<backend, now, quests, quest_progress, rejected_at, probe, user_stats, channel_config, tasks>>
        ELSE LET updated == approve_update(progress, approved)
             IN  /\ quest_progress' = save_quest_progress(quest_progress, updated)
                 /\ quests' = {IF q.quest_id = quest_id /\ approved
                               THEN [q EXCEPT !.status = COMPLETED] ELSE q :
                               q \in quests}
                 /\ last' = Call("approve", quest_id, user_id, "ok",
                                 StatusOf(progress), updated)
                 /\ rejected_at' = [rejected_at EXCEPT ![<<user_id, quest_id>>] =
                                        IF approved THEN None ELSE now]
                 /\ UNCHANGED <<backend, now, probe, user_stats, channel_config, tasks>>

\* QuestManager.approve_quest
approve_quest(quest_id, user_id, approved) ==
    LET progress == get_user_quest_progress(quest_progress, user_id, quest_id)
    IN  IF ~can_approve(progress)
        THEN /\ last' = Call("approve", quest_id, user_id, "None",
                             StatusOf(progress), NoRecord)
             /\ UNCHANGED <<backend, now, quests, quest_progress, rejected_at, probe, user_stats, channel_config, tasks>>
        ELSE LET updated == approve_update(progress, approved)
             IN  /\ quest_progress' = save_quest_progress(quest_progress, updated)
                 /\ last' = Call("approve", quest_id, user_id, "ok",
                                 StatusOf(progress), updated)
                 /\ rejected_at' = [rejected_at EXCEPT ![<<user_id, quest_id>>] =
                                        IF approved THEN None ELSE now]
                 /\ UNCHANGED <<backend, now, quests, probe, user_stats, channel_config, tasks>>

\* mutant of delete_quest: the quest is removed, its progress entries stay
delete_quest_no_cascade(quest_id) ==
    /\ quests' = {q \in quests : q.quest_id # quest_id}
    /\ last' = Call("delete", quest_id, 0, "ok",
                     IF IsNone(get_quest(quests, quest_id)) THEN "absent"
                     ELSE IF \E p \in quest_progress : p.quest_id = quest_id
                     THEN "cascade" ELSE "none", NoRecord)
    /\ UNCHANGED <<backend, now, quest_progress, rejected_at, probe, user_stats, channel_config, tasks>>

\* mutant of delete_quest: the progress entries are removed whether or not
\* they name the quest and whether or not the quest is stored
delete_quest_wipes_progress(quest_id) ==
    /\ quests' = {q \in quests : q.quest_id # quest_id}
    /\ quest_progress' = {}
    /\ rejected_at' = [k \in UserIds \X AllQuestIds |-> None]
    /\ last' = Call("delete", quest_id, 0, "ok",
                     IF IsNone(get_quest(quests, quest_id)) THEN "absent"
                     ELSE IF \E p \in quest_progress : p.quest_id = quest_id
                     THEN "cascade" ELSE "none", NoRecord)
    /\ UNCHANGED <<backend, now, probe, user_stats, channel_config, tasks>>

\* QuestManager.delete_quest over JSONDatabase.delete_quest (the quest and
\* the progress entries naming it, when the id is stored) or
\* Database.delete_quest (DELETE with ON DELETE CASCADE); a missing id
\* changes nothing and the call returns True
delete_quest(quest_id) ==
    /\ IF IsNone(get_quest(quests, quest_id)) /\ backend = "json"
       THEN UNCHANGED <<quests, quest_progress>>
       ELSE /\ quests' = {q \in quests : q.quest_id # quest_id}
            /\ quest_progress' = {p \in quest_progress : p.quest_id # quest_id}
    /\ rejected_at' = [k \in UserIds \X AllQuestIds |->
                          IF \E p \in quest_progress' :
                                p.user_id = k[1] /\ p.quest_id = k[2]
                          THEN rejected_at[k] ELSE None]
    /\ last' = Call("delete", quest_id, 0, "ok",
                     IF IsNone(get_quest(quests, quest_id)) THEN "absent"
                     ELSE IF \E p \in quest_progress : p.quest_id = quest_id
                     THEN "cascade" ELSE "none", NoRecord)
    /\ UNCHANGED <<backend, now, probe, user_stats, channel_config, tasks>>

\* the wall clock moves on to a later instant
Tick ==
    /\ \E t \in Instants : t > now /\ now' = t
    /\ UNCHANGED <<backend, quests, quest_progress, last, rejected_at, probe, user_stats, channel_config, tasks>>

Next ==
    \/ \E quest_id \in QuestIds, creator_id \in CreatorIds, guild_id \in GuildIds,
          required_role_ids \in RequiredRoleSets :
          create_quest(quest_id, creator_id, guild_id, QuestRank_NORMAL,
                       QuestCategory_OTHER, required_role_ids)
    \/ \E quest_id \in QuestIds, user_id \in UserIds,
          user_role_ids \in CallerRoleSets, ch \in ChannelIds :
          accept_quest(quest_id, user_id, user_role_ids, ch)
    \/ \E quest_id \in QuestIds, user_id \in UserIds,
          proof_text \in ProofTexts, urls \in ProofImageLists :
          complete_quest(quest_id, user_id, proof_text, urls)
    \/ \E quest_id \in QuestIds, user_id \in UserIds, approved \in BOOLEAN :
          approve_quest(quest_id, user_id, approved)
    \/ \E quest_id \in QuestIds : delete_quest(quest_id)
    \/ Tick

Spec == Init /\ [][Next]_vars


\* ------------------------------------------- the accept precondition chain
\* as a pure function: accept_error applied to inputs drawn from the declared
\* domains of its arguments (every QuestStatus a quest row can carry)
ProbeQuests ==
    {NoRecord} \cup
    {[Quest("q1", 1, 10, QuestRank_NORMAL, QuestCategory_OTHER, r)
        EXCEPT !.status = s] :
        r \in RequiredRoleSets, s \in {AVAILABLE, COMPLETED, CANCELLED}}

ProbeProgress ==
    {NoRecord} \cup
    {QuestProgress("q1", 1, 10, s, a, 7) :
        s \in {ACCEPTED, COMPLETED, APPROVED, REJECTED}, a \in Instants}

InitProbe ==
    /\ backend = "json"
    /\ now = 0
    /\ quests = {}
    /\ quest_progress = {}
    /\ last = Call("init", "", 0, "ok", "none", NoRecord)
    /\ rejected_at = [k \in UserIds \X AllQuestIds |-> None]
    /\ probe = NoProbe
    /\ user_stats = {}
    /\ channel_config = {}
    /\ tasks = NoTasks

evaluate_accept_error ==
    /\ \E quest \in ProbeQuests, existing_progress \in ProbeProgress,
          user_role_ids \in CallerRoleSets, t \in Instants :
          probe' = [set |-> TRUE, quest |-> quest,
                    existing |-> existing_progress,
                    roles |-> user_role_ids, t |-> t,
                    error |-> accept_error(quest, existing_progress,
                                           user_role_ids, t),
                    hours |-> IF accept_error(quest, existing_progress,
                                              user_role_ids, t) = "CooldownActive"
                              THEN hours_remaining(existing_progress, t)
                              ELSE None]
    /\ UNCHANGED <<backend, now, quests, quest_progress, last, rejected_at,
                   user_stats, channel_config, tasks>>

SpecAcceptOrder == InitProbe /\ [][evaluate_accept_error]_vars

\* ------------------------------------------ the role check as a function
\* user_has_required_roles applied to every pair of role sets over four roles
ProbeRoleIds == RoleIds \cup {400}

evaluate_user_has_required_roles ==
    /\ \E user_role_ids \in SUBSET ProbeRoleIds, required_role_ids \in SUBSET ProbeRoleIds :
          probe' = [set |-> TRUE, roles |-> user_role_ids,
                    required |-> required_role_ids,
                    result |-> user_has_required_roles(user_role_ids,
                                                       required_role_ids)]
    /\ UNCHANGED <<backend, now, quests, quest_progress, last, rejected_at, user_stats, channel_config, tasks>>

SpecRoleCheck == InitProbe /\ [][evaluate_user_has_required_roles]_vars

\* ------------------------------------------------- two quests side by side
\* the engine over two quest ids and two users, one guild, no role
\* requirement and a clock that stands still
NextTwoQuests ==
    \/ \E quest_id \in AllQuestIds, required_role_ids \in RequiredRoleSets :
          create_quest(quest_id, 1, 10, QuestRank_NORMAL, QuestCategory_OTHER,
                       required_role_ids)
    \/ \E quest_id \in AllQuestIds, user_id \in UserIds :
          accept_quest(quest_id, user_id, {100}, 7)
    \/ \E quest_id \in AllQuestIds, user_id \in UserIds :
          complete_quest(quest_id, user_id, "done", <<"img1">>)
    \/ \E quest_id \in AllQuestIds, user_id \in UserIds, approved \in BOOLEAN :
          approve_quest(quest_id, user_id, approved)
    \/ \E quest_id \in AllQuestIds : delete_quest(quest_id)

SpecTwoQuests == Init /\ [][NextTwoQuests]_vars

\* ------------------------------------------------------- bot/user_stats.py
\* models.UserStats
UserStats(user_id, guild_id, quests_completed, quests_accepted, quests_rejected, first_quest_date, last_quest_date) ==
    [user_id |-> user_id, guild_id |-> guild_id,
     quests_completed |-> quests_completed,
     quests_accepted |-> quests_accepted,
     quests_rejected |-> quests_rejected,
     first_quest_date |-> first_quest_date,
     last_quest_date |-> last_quest_date]

\* the stored record of (user_id, guild_id), NoRecord if there is none
database_get_user_stats(S, user_id, guild_id) ==
    IF \E s \in S : s.user_id = user_id /\ s.guild_id = guild_id
    THEN CHOOSE s \in S : s.user_id = user_id /\ s.guild_id = guild_id
    ELSE NoRecord

\* JSONDatabase.save_user_stats: the entry of f"{user_id}_{guild_id}" is
\* replaced as a whole
json_save_user_stats(S, stats) ==
    {s \in S : ~(s.user_id = stats.user_id /\ s.guild_id = stats.guild_id)}
        \cup {stats}

\* Database.save_user_stats: INSERT ... ON CONFLICT (user_id, guild_id)
\* DO UPDATE SET of the three counters and last_quest_date
pg_save_user_stats(S, stats) ==
    IF IsNone(database_get_user_stats(S, stats.user_id, stats.guild_id))
    THEN S \cup {stats}
    ELSE {IF s.user_id = stats.user_id /\ s.guild_id = stats.guild_id
          THEN [s EXCEPT !.quests_completed = stats.quests_completed,
                         !.quests_accepted = stats.quests_accepted,
                         !.quests_rejected = stats.quests_rejected,
                         !.last_quest_date = stats.last_quest_date]
          ELSE s : s \in S}

save_user_stats(S, stats) ==
    IF backend = "json" THEN json_save_user_stats(S, stats)
    ELSE pg_save_user_stats(S, stats)

\* UserStatsManager.get_user_stats as a function of the store: the record
\* returned and the store it leaves (a missing record is created with zero
\* counters and saved)
loaded_user_stats(S, user_id, guild_id, t) ==
    LET stats == database_get_user_stats(S, user_id, guild_id)
    IN  IF IsNone(stats) THEN UserStats(user_id, guild_id, 0, 0, 0, t, t)
        ELSE stats

\* mutant of store_after_load: the zero record is saved on every call
store_after_load_always(S, user_id, guild_id, t) ==
    save_user_stats(S, UserStats(user_id, guild_id, 0, 0, 0, t, t))

store_after_load(S, user_id, guild_id, t) ==
    IF IsNone(database_get_user_stats(S, user_id, guild_id))
    THEN save_user_stats(S, UserStats(user_id, guild_id, 0, 0, 0, t, t))
    ELSE S

\* UserStatsManager.get_user_stats
get_user_stats(user_id, guild_id) ==
    /\ user_stats' = store_after_load(user_stats, user_id, guild_id, now)
    /\ last' = Call("get_user_stats", "", user_id, "ok", "none",
                     loaded_user_stats(user_stats, user_id, guild_id, now))
    /\ UNCHANGED <<backend, now, quests, quest_progress, rejected_at, probe, channel_config, tasks>>

\* UserStatsManager.update_quest_accepted
update_quest_accepted(user_id, guild_id) ==
    LET stats == loaded_user_stats(user_stats, user_id, guild_id, now)
        updated == [stats EXCEPT !.quests_accepted = @ + 1,
                                 !.last_quest_date = now]
    IN  /\ stats.quests_accepted < MaxCount
        /\ user_stats' = save_user_stats(
                store_after_load(user_stats, user_id, guild_id, now), updated)
        /\ last' = Call("update_quest_accepted", "", user_id, "ok", "none", NoRecord)
        /\ UNCHANGED <<backend, now, quests, quest_progress, rejected_at, probe, channel_config, tasks>>

\* mutant of update_quest_completed: an approval is counted twice
update_quest_completed_twice(user_id, guild_id) ==
    LET stats == loaded_user_stats(user_stats, user_id, guild_id, now)
        updated == [stats EXCEPT !.quests_completed = @ + 2,
                                 !.last_quest_date = now]
    IN  /\ stats.quests_completed < MaxCount
        /\ user_stats' = save_user_stats(
                store_after_load(user_stats, user_id, guild_id, now), updated)
        /\ last' = Call("update_quest_completed", "", user_id, "ok", "none", NoRecord)
        /\ UNCHANGED <<backend, now, quests, quest_progress, rejected_at, probe, channel_config, tasks>>

\* UserStatsManager.update_quest_completed
update_quest_completed(user_id, guild_id) ==
    LET stats == loaded_user_stats(user_stats, user_id, guild_id, now)
        updated == [stats EXCEPT !.quests_completed = @ + 1,
                                 !.last_quest_date = now]
    IN  /\ stats.quests_completed < MaxCount
        /\ user_stats' = save_user_stats(
                store_after_load(user_stats, user_id, guild_id, now), updated)
        /\ last' = Call("update_quest_completed", "", user_id, "ok", "none", NoRecord)
        /\ UNCHANGED <<backend, now, quests, quest_progress, rejected_at, probe, channel_config, tasks>>

\* UserStatsManager.update_quest_rejected
update_quest_rejected(user_id, guild_id) ==
    LET stats == loaded_user_stats(user_stats, user_id, guild_id, now)
        updated == [stats EXCEPT !.quests_rejected = @ + 1,
                                 !.last_quest_date = now]
    IN  /\ stats.quests_rejected < MaxCount
        /\ user_stats' = save_user_stats(
                store_after_load(user_stats, user_id, guild_id, now), updated)
        /\ last' = Call("update_quest_rejected", "", user_id, "ok", "none", NoRecord)
        /\ UNCHANGED <<backend, now, quests, quest_progress, rejected_at, probe, channel_config, tasks>>

\* ----------------------------------------------------------- bot/config.py
\* models.ChannelConfig
ChannelConfigModel(guild_id, quest_list_channel, quest_accept_channel, quest_submit_channel, quest_approval_channel, notification_channel) ==
    [guild_id |-> guild_id,
     quest_list_channel |-> quest_list_channel,
     quest_accept_channel |-> quest_accept_channel,
     quest_submit_channel |-> quest_submit_channel,
     quest_approval_channel |-> quest_approval_channel,
     notification_channel |-> notification_channel]

\* mutant of save_channel_config: a channel passed as None keeps the value
\* stored before
save_channel_config_merge(C, config) ==
    LET old == IF \E c \in C : c.guild_id = config.guild_id
               THEN CHOOSE c \in C : c.guild_id = config.guild_id
               ELSE config
        Keep(new, stored) == IF new = None THEN stored ELSE new
    IN  {c \in C : c.guild_id # config.guild_id} \cup
        {[guild_id |-> config.guild_id,
          quest_list_channel |-> Keep(config.quest_list_channel, old.quest_list_channel),
          quest_accept_channel |-> Keep(config.quest_accept_channel, old.quest_accept_channel),
          quest_submit_channel |-> Keep(config.quest_submit_channel, old.quest_submit_channel),
          quest_approval_channel |-> Keep(config.quest_approval_channel, old.quest_approval_channel),
          notification_channel |-> Keep(config.notification_channel, old.notification_channel)]}

\* save_channel_config: the entry (row) of the guild is replaced, all five
\* channels included, on both stores
save_channel_config(C, config) ==
    {c \in C : c.guild_id # config.guild_id} \cup {config}

\* ChannelConfig.set_guild_channels
set_guild_channels(guild_id, quest_list_channel, quest_accept_channel, quest_submit_channel, quest_approval_channel, notification_channel) ==
    /\ channel_config' = save_channel_config(channel_config,
            ChannelConfigModel(guild_id, quest_list_channel,
                               quest_accept_channel, quest_submit_channel,
                               quest_approval_channel, notification_channel))
    /\ last' = Call("set_guild_channels", "", 0, "ok", "none", NoRecord)
    /\ UNCHANGED <<backend, now, quests, quest_progress, rejected_at, probe, user_stats, tasks>>

\* get_channel_config: the record of the guild, NoRecord if there is none
get_channel_config(C, guild_id) ==
    IF \E c \in C : c.guild_id = guild_id
    THEN CHOOSE c \in C : c.guild_id = guild_id
    ELSE NoRecord

\* ChannelConfig.get_*_channel: the field of the guild's record, None when
\* the guild has no record
get_quest_list_channel(C, guild_id) ==
    LET config == get_channel_config(C, guild_id)
    IN  IF IsNone(config) THEN None ELSE config.quest_list_channel

get_quest_accept_channel(C, guild_id) ==
    LET config == get_channel_config(C, guild_id)
    IN  IF IsNone(config) THEN None ELSE config.quest_accept_channel

get_quest_submit_channel(C, guild_id) ==
    LET config == get_channel_config(C, guild_id)
    IN  IF IsNone(config) THEN None ELSE config.quest_submit_channel

get_quest_approval_channel(C, guild_id) ==
    LET config == get_channel_config(C, guild_id)
    IN  IF IsNone(config) THEN None ELSE config.quest_approval_channel

get_notification_channel(C, guild_id) ==
    LET config == get_channel_config(C, guild_id)
    IN  IF IsNone(config) THEN None ELSE config.notification_channel

\* a channel argument: an id, or None when the role is left out
OptionalChannels == {None} \cup ChannelIds

\* ------------------------------------------- the channel settings alone
NextChannels ==
    \E guild_id \in GuildIds, a, b, c, d, e \in OptionalChannels :
        set_guild_channels(guild_id, a, b, c, d, e)

SpecChannels == Init /\ [][NextChannels]_vars

\* ------------------------------------ the engine next to stats and config
\* one quest, one user, one guild and a clock that stands still; the stats
\* hooks and the channel settings are called in any order with the engine
NextEngineStats ==
    \/ \E required_role_ids \in RequiredRoleSets :
          create_quest("q1", 1, 10, QuestRank_NORMAL, QuestCategory_OTHER,
                       required_role_ids)
    \/ accept_quest("q1", 1, {100}, 7)
    \/ complete_quest("q1", 1, "done", <<"img1">>)
    \/ \E approved \in BOOLEAN : approve_quest("q1", 1, approved)
    \/ delete_quest("q1")
    \/ get_user_stats(1, 10)
    \/ update_quest_accepted(1, 10)
    \/ update_quest_completed(1, 10)
    \/ update_quest_rejected(1, 10)
    \/ \E a, b \in OptionalChannels :
          set_guild_channels(10, a, b, None, None, None)

SpecEngineStats == Init /\ [][NextEngineStats]_vars

\* ---------------------------------------------- concurrent engine calls
\* Handlers are coroutines of one event loop: control passes to another
\* handler only where an awaited store call suspends.  The asyncpg calls of
\* Database suspend, so a handler on that store is a sequence of steps, one
\* per store call; the methods of JSONDatabase never suspend (dict accesses
\* and blocking subprocess.run), so a handler on that store is one step.
ConcChannelIds == {7, 8}

Running(pc, op, quest_id, user_id, ch, approved, quest, progress, result) ==
    [pc |-> pc, op |-> op, quest_id |-> quest_id, user_id |-> user_id,
     ch |-> ch, approved |-> approved, quest |-> quest, pre |-> "",
     progress |-> progress, result |-> result]

Returned(task, result) == [task EXCEPT !.pc = "done", !.result = result]

\* a handler is invoked on the PostgreSQL store
begin(t, op, quest_id, user_id, ch, approved) ==
    /\ backend = "postgres"
    /\ tasks[t].pc = "idle"
    /\ tasks' = [tasks EXCEPT ![t] =
                    Running(IF op = "accept" THEN "get_quest" ELSE "get_progress",
                            op, quest_id, user_id, ch, approved,
                            NoRecord, NoRecord, "")]
    /\ UNCHANGED <<backend, now, quests, quest_progress, last, rejected_at, probe, user_stats, channel_config>>

\* accept_quest: await get_quest, then the checks on the quest
accept_quest_get_quest(t) ==
    LET task == tasks[t]
        quest == get_quest(quests, task.quest_id)
        error == accept_error(quest, NoRecord, {100}, now)
    IN  /\ task.pc = "get_quest"
        /\ tasks' = [tasks EXCEPT ![t] =
                        IF error \in {"NotFound", "NotAvailable"}
                        THEN Returned(task, error)
                        ELSE [task EXCEPT !.pc = "get_progress",
                                          !.quest = quest]]
        /\ UNCHANGED <<backend, now, quests, quest_progress, last, rejected_at, probe, user_stats, channel_config>>

\* accept_quest: await get_user_quest_progress, then the checks on the
\* existing progress and the roles, then the new QuestProgress is built
accept_quest_get_progress(t) ==
    LET task == tasks[t]
        existing_progress == get_user_quest_progress(quest_progress,
                                                     task.user_id, task.quest_id)
        error == accept_error(task.quest, existing_progress, {100}, now)
    IN  /\ task.pc = "get_progress"
        /\ task.op = "accept"
        /\ tasks' = [tasks EXCEPT ![t] =
                        IF error # "ok"
                        THEN Returned(task, error)
                        ELSE [task EXCEPT
                                !.pc = "save",
                                !.pre = StatusOf(existing_progress),
                                !.progress =
                                    QuestProgress(task.quest_id, task.user_id,
                                                  task.quest.guild_id, ACCEPTED,
                                                  now, task.ch)]]
        /\ UNCHANGED <<backend, now, quests, quest_progress, last, rejected_at, probe, user_stats, channel_config>>

\* complete_quest: await get_user_quest_progress, the status check, the
\* update of the loaded record
complete_quest_get_progress(t) ==
    LET task == tasks[t]
        progress == get_user_quest_progress(quest_progress,
                                            task.user_id, task.quest_id)
    IN  /\ task.pc = "get_progress"
        /\ task.op = "complete"
        /\ tasks' = [tasks EXCEPT ![t] =
                        IF ~can_complete(progress)
                        THEN Returned(task, "None")
                        ELSE [task EXCEPT
                                !.pc = "save",
                                !.progress = complete_update(progress, "done",
                                                             <<"img1">>, now)]]
        /\ UNCHANGED <<backend, now, quests, quest_progress, last, rejected_at, probe, user_stats, channel_config>>

\* approve_quest: await get_user_quest_progress, the status check, the
\* update of the loaded record
approve_quest_get_progress(t) ==
    LET task == tasks[t]
        progress == get_user_quest_progress(quest_progress,
                                            task.user_id, task.quest_id)
    IN  /\ task.pc = "get_progress"
        /\ task.op = "approve"
        /\ tasks' = [tasks EXCEPT ![t] =
                        IF ~can_approve(progress)
                        THEN Returned(task, "None")
                        ELSE [task EXCEPT
                                !.pc = "save",
                                !.progress = approve_update(progress,
                                                            task.approved)]]
        /\ UNCHANGED <<backend, now, quests, quest_progress, last, rejected_at, probe, user_stats, channel_config>>

\* mutant of await_save_quest_progress: the row is inserted without conflict
\* handling
await_save_quest_progress_appends(t) ==
    LET task == tasks[t]
    IN  /\ task.pc = "save"
        /\ IF IsNone(get_quest(quests, task.quest_id))
           THEN /\ tasks' = [tasks EXCEPT ![t] = Returned(task, "raised")]
                /\ UNCHANGED quest_progress
           ELSE /\ quest_progress' = quest_progress \cup {task.progress}
                /\ tasks' = [tasks EXCEPT ![t] = Returned(task, "ok")]
        /\ UNCHANGED <<backend, now, quests, last, rejected_at, probe, user_stats, channel_config>>

\* await save_quest_progress of the three handlers: the upsert of
\* Database.save_quest_progress; the insert of a row whose quest has been
\* deleted violates FOREIGN KEY (quest_id) and the handler raises
await_save_quest_progress(t) ==
    LET task == tasks[t]
    IN  /\ task.pc = "save"
        /\ IF IsNone(get_quest(quests, task.quest_id))
           THEN /\ tasks' = [tasks EXCEPT ![t] = Returned(task, "raised")]
                /\ UNCHANGED quest_progress
           ELSE /\ quest_progress' = pg_save_quest_progress(quest_progress,
                                                            task.progress)
                /\ tasks' = [tasks EXCEPT ![t] = Returned(task, "ok")]
        /\ UNCHANGED <<backend, now, quests, last, rejected_at, probe, user_stats, channel_config>>

\* the caller takes the handler's result
handler_returns(t) ==
    /\ tasks[t].pc = "done"
    /\ tasks' = [tasks EXCEPT ![t] = Idle]
    /\ UNCHANGED <<backend, now, quests, quest_progress, last, rejected_at, probe, user_stats, channel_config>>

NextConc ==
    \/ create_quest("q1", 1, 10, QuestRank_NORMAL, QuestCategory_OTHER, {})
    \/ delete_quest("q1")
    \/ /\ backend = "json"
       /\ \E ch \in ConcChannelIds : accept_quest("q1", 1, {100}, ch)
    \/ /\ backend = "json"
       /\ complete_quest("q1", 1, "done", <<"img1">>)
    \/ /\ backend = "json"
       /\ \E approved \in BOOLEAN : approve_quest("q1", 1, approved)
    \/ \E t \in TaskIds, op \in {"accept", "complete", "approve"},
          ch \in ConcChannelIds, approved \in BOOLEAN :
          /\ op # "accept" => ch = 7
          /\ op # "approve" => approved
          /\ begin(t, op, "q1", 1, ch, approved)
    \/ \E t \in TaskIds : accept_quest_get_quest(t)
    \/ \E t \in TaskIds : accept_quest_get_progress(t)
    \/ \E t \in TaskIds : complete_quest_get_progress(t)
    \/ \E t \in TaskIds : approve_quest_get_progress(t)
    \/ \E t \in TaskIds : await_save_quest_progress(t)
    \/ \E t \in TaskIds : handler_returns(t)

SpecConc == Init /\ [][NextConc]_vars

\* ------------------------------------------------- the stats hooks alone
\* sequential calls of the hooks for two users of guild 10, and of
\* get_user_stats for every (user, guild)
NextStats ==
    \/ \E user_id \in UserIds : get_user_stats(user_id, 10)
    \/ get_user_stats(1, 20)
    \/ \E user_id \in UserIds : update_quest_accepted(user_id, 10)
    \/ \E user_id \in UserIds : update_quest_completed(user_id, 10)
    \/ \E user_id \in UserIds : update_quest_rejected(user_id, 10)

SpecStats == Init /\ [][NextStats]_vars

\* ----------------------------------------------- concurrent stats hooks
\* the hooks of UserStatsManager as coroutines: on the PostgreSQL store one
\* step per awaited store call (load, the save of a newly created record,
\* the save of the updated record), on the JSON store one step per hook
StatsOps == {"get_user_stats", "update_quest_accepted", "update_quest_completed", "update_quest_rejected"}

StatsRunning(pc, op, user_id, guild_id, stats) ==
    [pc |-> pc, op |-> op, user_id |-> user_id, guild_id |-> guild_id,
     stats |-> stats]

\* the in-memory record after the += 1 of hook op; last_quest_date = now
incremented(op, stats, t) ==
    IF op = "update_quest_accepted"
    THEN [stats EXCEPT !.quests_accepted = @ + 1, !.last_quest_date = t]
    ELSE IF op = "update_quest_completed"
    THEN [stats EXCEPT !.quests_completed = @ + 1, !.last_quest_date = t]
    ELSE [stats EXCEPT !.quests_rejected = @ + 1, !.last_quest_date = t]

\* the counter hook op increments
counter_of(op, stats) ==
    IF op = "update_quest_accepted" THEN stats.quests_accepted
    ELSE IF op = "update_quest_completed" THEN stats.quests_completed
    ELSE stats.quests_rejected

\* a hook is invoked on the PostgreSQL store
begin_hook(t, op, user_id, guild_id) ==
    /\ backend = "postgres"
    /\ tasks[t].pc = "idle"
    /\ tasks' = [tasks EXCEPT ![t] =
                    StatsRunning("load", op, user_id, guild_id, NoRecord)]
    /\ UNCHANGED <<backend, now, quests, quest_progress, last, rejected_at, probe, user_stats, channel_config>>

\* get_user_stats: await database.get_user_stats
hook_load(t) ==
    LET task == tasks[t]
        stats == database_get_user_stats(user_stats, task.user_id, task.guild_id)
    IN  /\ task.pc = "load"
        /\ (~IsNone(stats) /\ task.op # "get_user_stats") =>
                counter_of(task.op, stats) < MaxCount
        /\ tasks' = [tasks EXCEPT ![t] =
                IF IsNone(stats)
                THEN [task EXCEPT !.pc = "create",
                                  !.stats = UserStats(task.user_id, task.guild_id,
                                                      0, 0, 0, now, now)]
                ELSE IF task.op = "get_user_stats"
                THEN [task EXCEPT !.pc = "done", !.stats = stats]
                ELSE [task EXCEPT !.pc = "save",
                                  !.stats = incremented(task.op, stats, now)]]
        /\ UNCHANGED <<backend, now, quests, quest_progress, last, rejected_at, probe, user_stats, channel_config>>

\* get_user_stats: await database.save_user_stats of the record it created
hook_create(t) ==
    LET task == tasks[t]
    IN  /\ task.pc = "create"
        /\ user_stats' = pg_save_user_stats(user_stats, task.stats)
        /\ tasks' = [tasks EXCEPT ![t] =
                IF task.op = "get_user_stats"
                THEN [task EXCEPT !.pc = "done"]
                ELSE [task EXCEPT !.pc = "save",
                                  !.stats = incremented(task.op, task.stats, now)]]
        /\ UNCHANGED <<backend, now, quests, quest_progress, last, rejected_at, probe, channel_config>>

\* update_quest_*: await database.save_user_stats of the updated record
hook_save(t) ==
    LET task == tasks[t]
    IN  /\ task.pc = "save"
        /\ user_stats' = pg_save_user_stats(user_stats, task.stats)
        /\ tasks' = [tasks EXCEPT ![t] = [task EXCEPT !.pc = "done"]]
        /\ UNCHANGED <<backend, now, quests, quest_progress, last, rejected_at, probe, channel_config>>

NextStatsConc ==
    \/ /\ backend = "json"
       /\ get_user_stats(1, 10)
    \/ /\ backend = "json"
       /\ update_quest_accepted(1, 10)
    \/ /\ backend = "json"
       /\ update_quest_completed(1, 10)
    \/ /\ backend = "json"
       /\ update_quest_rejected(1, 10)
    \/ \E t \in TaskIds, op \in StatsOps : begin_hook(t, op, 1, 10)
    \/ \E t \in TaskIds : hook_load(t)
    \/ \E t \in TaskIds : hook_create(t)
    \/ \E t \in TaskIds : hook_save(t)
    \/ \E t \in TaskIds : handler_returns(t)

SpecStatsConc == Init /\ [][NextStatsConc]_vars

\* ------------------------------------------------------ the leaderboard
\* get_guild_leaderboard as a function of the stats store.  The JSON store is
\* a dict whose values() come in insertion order, the PostgreSQL store a
\* table; rows is the content of either, in dict order.
sort_key(stats) == <<stats.quests_completed, stats.quests_accepted>>

\* tuple comparison of two sort keys
key_less(a, b) == a[1] < b[1] \/ (a[1] = b[1] /\ a[2] < b[2])

\* list.sort(key=..., reverse=True) is stable: x goes behind every element
\* whose key is not less than its own
RECURSIVE insert_sorted(_, _)
insert_sorted(sorted, x) ==
    IF sorted = << >> THEN <<x>>
    ELSE IF key_less(sort_key(sorted[Len(sorted)]), sort_key(x))
    THEN Append(insert_sorted(SubSeq(sorted, 1, Len(sorted) - 1), x),
                sorted[Len(sorted)])
    ELSE Append(sorted, x)

RECURSIVE sort_reverse(_)
sort_reverse(stats) ==
    IF stats = << >> THEN << >>
    ELSE insert_sorted(sort_reverse(SubSeq(stats, 1, Len(stats) - 1)),
                       stats[Len(stats)])

\* the slice stats[:limit]: the first limit elements, and for a negative
\* limit all but the last -limit elements
first_n(stats, limit) ==
    SubSeq(stats, 1, IF limit < 0
                     THEN (IF Len(stats) + limit > 0 THEN Len(stats) + limit ELSE 0)
                     ELSE IF limit < Len(stats) THEN limit ELSE Len(stats))

in_guild(guild_id, stats) == stats.guild_id = guild_id

\* JSONDatabase.get_guild_leaderboard
json_get_guild_leaderboard(rows, guild_id, limit) ==
    first_n(sort_reverse(SelectSeq(rows, LAMBDA s : in_guild(guild_id, s))), limit)

\* the sequences that list every element of set S once
orderings(S) ==
    {f \in [1..Cardinality(S) -> S] : \A x \in S : \E i \in DOMAIN f : f[i] = x}

\* Database.get_guild_leaderboard: ORDER BY quests_completed DESC,
\* quests_accepted DESC LIMIT; SQL leaves the order of rows that are equal
\* on both columns open, so every order of the ties is a possible answer
pg_get_guild_leaderboard(S, guild_id, limit) ==
    {first_n(f, limit) :
        f \in {g \in orderings({s \in S : in_guild(guild_id, s)}) :
                  \A i, j \in DOMAIN g :
                     i < j => ~key_less(sort_key(g[i]), sort_key(g[j]))}}

get_guild_leaderboard(rows, S, guild_id, limit) ==
    IF backend = "json" THEN {json_get_guild_leaderboard(rows, guild_id, limit)}
    ELSE pg_get_guild_leaderboard(S, guild_id, limit)

\* the stores the leaderboard is asked about: at most one record per user,
\* in guild 10 with counters 0 or 1 or in guild 20, in any dict order
LeaderUserIds == 1..MaxLeaders

LeaderRecords(user_id) ==
    {UserStats(user_id, 10, c, a, 0, 0, 0) : c \in 0..1, a \in 0..1}
        \cup {UserStats(user_id, 20, 1, 1, 0, 0, 0)}

LeaderStores ==
    UNION {{f \in [1..Cardinality(U) -> UNION {LeaderRecords(u) : u \in U}] :
               \A u \in U : \E i \in DOMAIN f : f[i].user_id = u} :
           U \in SUBSET LeaderUserIds}

InitLeaderboard ==
    /\ backend \in Backends
    /\ now = 0
    /\ quests = {}
    /\ quest_progress = {}
    /\ last = Call("init", "", 0, "ok", "none", NoRecord)
    /\ rejected_at = [k \in UserIds \X AllQuestIds |-> None]
    /\ \E rows \in LeaderStores, guild_id \in GuildIds, limit \in 0..MaxLeaders :
          /\ user_stats = {rows[i] : i \in DOMAIN rows}
          /\ probe = [set |-> FALSE, rows |-> rows, guild_id |-> guild_id,
                      limit |-> limit, result |-> << >>]
    /\ channel_config = {}
    /\ tasks = NoTasks

\* UserStatsManager.get_guild_leaderboard is called
evaluate_leaderboard ==
    /\ \E result \in get_guild_leaderboard(probe.rows, user_stats,
                                            probe.guild_id, probe.limit) :
          probe' = [probe EXCEPT !.set = TRUE, !.result = result]
    /\ UNCHANGED <<backend, now, quests, quest_progress, last, rejected_at, user_stats, channel_config, tasks>>

SpecLeaderboard == InitLeaderboard /\ [][evaluate_leaderboard]_vars

\* ------------------------------------------- the leaderboard command
\* QuestCommands.leaderboard: "if limit and limit > 25: limit = 25", then
\* the store is asked with "limit or 10" (0, like an omitted limit, is
\* falsy)
leaderboard_limit(limit) ==
    LET capped == IF limit # 0 /\ limit > 25 THEN 25 ELSE limit
    IN  IF capped # 0 THEN capped ELSE 10

\* the limits a user types
UserLimits == {-1, 0, 1, 2, 25, 26}

\* a guild with more members on the board than the command is meant to show
ManyRows == [i \in 1..27 |-> UserStats(i, 10, 0, 0, 0, 0, 0)]

\* the stores and the limit the command is called with; the long board is
\* asked about on the JSON store
InitLeaderboardCommand ==
    /\ backend \in Backends
    /\ now = 0
    /\ quests = {}
    /\ quest_progress = {}
    /\ last = Call("init", "", 0, "ok", "none", NoRecord)
    /\ rejected_at = [k \in UserIds \X AllQuestIds |-> None]
    /\ \E rows \in LeaderStores \cup {ManyRows}, limit \in UserLimits :
          /\ Len(rows) > MaxLeaders => backend = "json"
          /\ user_stats = {rows[i] : i \in DOMAIN rows}
          /\ probe = [set |-> FALSE, rows |-> rows, guild_id |-> 10,
                      limit |-> limit, handed |-> 0, raised |-> FALSE,
                      result |-> << >>]
    /\ channel_config = {}
    /\ tasks = NoTasks

\* QuestCommands.leaderboard asks the store; PostgreSQL rejects a negative
\* LIMIT with an error, which the handler does not catch
leaderboard_command ==
    LET handed == leaderboard_limit(probe.limit)
    IN  /\ IF backend = "postgres" /\ handed < 0
           THEN probe' = [probe EXCEPT !.set = TRUE, !.handed = handed,
                                       !.raised = TRUE]
           ELSE \E result \in get_guild_leaderboard(probe.rows, user_stats,
                                                    probe.guild_id, handed) :
                   probe' = [probe EXCEPT !.set = TRUE, !.handed = handed,
                                          !.result = result]
        /\ UNCHANGED <<backend, now, quests, quest_progress, last, rejected_at, user_stats, channel_config, tasks>>

SpecLeaderboardCommand == InitLeaderboardCommand /\ [][leaderboard_command]_vars

\* ------------------------------------------------------- bot/commands.py
\* the stats store after hook op has run for (user_id, guild_id) at time t
after_hook(S, op, user_id, guild_id, t) ==
    save_user_stats(store_after_load(S, user_id, guild_id, t),
                    incremented(op, loaded_user_stats(S, user_id, guild_id, t), t))

\* the command is sent from a channel other than the one configured for it
\* and the configured channel exists in the guild
wrong_channel(configured, channel_id, channel_exists) ==
    configured # None /\ channel_id # configured /\ channel_exists

\* QuestCommands.accept_quest, run to its end without another handler in
\* between
accept_quest_command(quest_id, user_id, user_role_ids, channel_id, guild_id, channel_exists) ==
    LET quest == get_quest(quests, quest_id)
        existing_progress == get_user_quest_progress(quest_progress, user_id, quest_id)
        error == accept_error(quest, existing_progress, user_role_ids, now)
    IN  IF wrong_channel(get_quest_accept_channel(channel_config, guild_id), channel_id, channel_exists)
        THEN /\ last' = Call("accept_quest_command", quest_id, user_id,
                             "WrongChannel", StatusOf(existing_progress), NoRecord)
             /\ UNCHANGED <<backend, now, quests, quest_progress, rejected_at, probe, user_stats, channel_config, tasks>>
        ELSE IF error # "ok"
        THEN /\ last' = Call("accept_quest_command", quest_id, user_id, error,
                             StatusOf(existing_progress), NoRecord)
             /\ UNCHANGED <<backend, now, quests, quest_progress, rejected_at, probe, user_stats, channel_config, tasks>>
        ELSE LET progress == QuestProgress(quest_id, user_id, quest.guild_id,
                                           ACCEPTED, now, channel_id)
             IN  /\ loaded_user_stats(user_stats, user_id, guild_id, now).quests_accepted < MaxCount
                 /\ quest_progress' = save_quest_progress(quest_progress, progress)
                 /\ user_stats' = after_hook(user_stats, "update_quest_accepted",
                                             user_id, guild_id, now)
                 /\ last' = Call("accept_quest_command", quest_id, user_id, "ok",
                                 StatusOf(existing_progress), NoRecord)
                 /\ rejected_at' = [rejected_at EXCEPT ![<<user_id, quest_id>>] = None]
                 /\ UNCHANGED <<backend, now, quests, probe, channel_config, tasks>>

\* QuestCommands.complete_quest
complete_quest_command(quest_id, user_id, channel_id, guild_id, channel_exists) ==
    LET progress == get_user_quest_progress(quest_progress, user_id, quest_id)
    IN  IF wrong_channel(get_quest_submit_channel(channel_config, guild_id), channel_id, channel_exists)
        THEN /\ last' = Call("complete_quest_command", quest_id, user_id,
                             "WrongChannel", StatusOf(progress), NoRecord)
             /\ UNCHANGED <<backend, now, quests, quest_progress, rejected_at, probe, user_stats, channel_config, tasks>>
        ELSE IF ~can_complete(progress)
        THEN /\ last' = Call("complete_quest_command", quest_id, user_id, "None",
                             StatusOf(progress), NoRecord)
             /\ UNCHANGED <<backend, now, quests, quest_progress, rejected_at, probe, user_stats, channel_config, tasks>>
        ELSE LET updated == complete_update(progress, "done", <<"img1">>, now)
             IN  /\ quest_progress' = save_quest_progress(quest_progress, updated)
                 /\ last' = Call("complete_quest_command", quest_id, user_id, "ok",
                                 StatusOf(progress), NoRecord)
                 /\ UNCHANGED <<backend, now, quests, rejected_at, probe, user_stats, channel_config, tasks>>

\* mutant of quest_approval: the stats hook runs before the status check
quest_approval_counts_first(quest_id, user_id, action, guild_id, permitted) ==
    LET quest == get_quest(quests, quest_id)
        progress == get_user_quest_progress(quest_progress, user_id, quest_id)
        hook == IF action = "approve" THEN "update_quest_completed"
                ELSE "update_quest_rejected"
    IN  IF ~permitted \/ IsNone(quest) \/ IsNone(progress) \/ action = "view"
        THEN /\ last' = Call("quest_approval", quest_id, user_id, "None",
                             StatusOf(progress), NoRecord)
             /\ UNCHANGED <<backend, now, quests, quest_progress, rejected_at, probe, user_stats, channel_config, tasks>>
        ELSE IF ~can_approve(progress)
        THEN /\ counter_of(hook, loaded_user_stats(user_stats, user_id, guild_id, now)) < MaxCount
             /\ user_stats' = after_hook(user_stats, hook, user_id, guild_id, now)
             /\ last' = Call("quest_approval", quest_id, user_id, "NotReady",
                             StatusOf(progress), NoRecord)
             /\ UNCHANGED <<backend, now, quests, quest_progress, rejected_at, probe, channel_config, tasks>>
        ELSE LET updated == approve_update(progress, action = "approve")
             IN  /\ counter_of(hook, loaded_user_stats(user_stats, user_id, guild_id, now)) < MaxCount
                 /\ quest_progress' = save_quest_progress(quest_progress, updated)
                 /\ user_stats' = after_hook(user_stats, hook, user_id, guild_id, now)
                 /\ last' = Call("quest_approval", quest_id, user_id, action,
                                 StatusOf(progress), NoRecord)
                 /\ rejected_at' = [rejected_at EXCEPT ![<<user_id, quest_id>>] =
                                        IF action = "approve" THEN None ELSE now]
                 /\ UNCHANGED <<backend, now, quests, probe, channel_config, tasks>>

\* QuestCommands.quest_approval with action view, approve or reject;
\* permitted stands for has_quest_creation_permission and can_manage_quest
quest_approval(quest_id, user_id, action, guild_id, permitted) ==
    LET quest == get_quest(quests, quest_id)
        progress == get_user_quest_progress(quest_progress, user_id, quest_id)
        hook == IF action = "approve" THEN "update_quest_completed"
                ELSE "update_quest_rejected"
    IN  IF ~permitted \/ IsNone(quest) \/ IsNone(progress) \/ action = "view"
        THEN /\ last' = Call("quest_approval", quest_id, user_id, "None",
                             StatusOf(progress), NoRecord)
             /\ UNCHANGED <<backend, now, quests, quest_progress, rejected_at, probe, user_stats, channel_config, tasks>>
        ELSE IF ~can_approve(progress)
        THEN /\ last' = Call("quest_approval", quest_id, user_id, "NotReady",
                             StatusOf(progress), NoRecord)
             /\ UNCHANGED <<backend, now, quests, quest_progress, rejected_at, probe, user_stats, channel_config, tasks>>
        ELSE LET updated == approve_update(progress, action = "approve")
             IN  /\ counter_of(hook, loaded_user_stats(user_stats, user_id, guild_id, now)) < MaxCount
                 /\ quest_progress' = save_quest_progress(quest_progress, updated)
                 /\ user_stats' = after_hook(user_stats, hook, user_id, guild_id, now)
                 /\ last' = Call("quest_approval", quest_id, user_id, action,
                                 StatusOf(progress), NoRecord)
                 /\ rejected_at' = [rejected_at EXCEPT ![<<user_id, quest_id>>] =
                                        IF action = "approve" THEN None ELSE now]
                 /\ UNCHANGED <<backend, now, quests, probe, channel_config, tasks>>

\* permissions.can_manage_quest: the guild owner, the quest's creator, an
\* administrator or a member with manage_guild; guild_privileged stands for
\* the caller being owner, administrator or manage_guild in the guild the
\* command is issued in
can_manage_quest(user_id, guild_privileged, quest_creator_id) ==
    guild_privileged \/ user_id = quest_creator_id

\* QuestCommands.delete_quest issued by caller_id in guild guild_id: the
\* quest is looked up by its id alone, the caller's rights are those held in
\* the issuing guild; QuestManager.delete_quest then removes the stored
\* quest and its progress entries.  The call record keeps the issuing guild.
delete_quest_command(quest_id, caller_id, guild_id, guild_privileged) ==
    LET quest == get_quest(quests, quest_id)
    IN  IF IsNone(quest)
        THEN /\ last' = Call("delete_quest_command", quest_id, caller_id,
                             "NotFound", "absent", NoRecord)
             /\ UNCHANGED <<backend, now, quests, quest_progress, rejected_at, probe, user_stats, channel_config, tasks>>
        ELSE IF ~can_manage_quest(caller_id, guild_privileged, quest.creator_id)
        THEN /\ last' = Call("delete_quest_command", quest_id, caller_id,
                             "Denied", "none", NoRecord)
             /\ UNCHANGED <<backend, now, quests, quest_progress, rejected_at, probe, user_stats, channel_config, tasks>>
        ELSE /\ quests' = {q \in quests : q.quest_id # quest_id}
             /\ quest_progress' = {p \in quest_progress : p.quest_id # quest_id}
             /\ rejected_at' = [k \in UserIds \X AllQuestIds |->
                                   IF \E p \in quest_progress' :
                                         p.user_id = k[1] /\ p.quest_id = k[2]
                                   THEN rejected_at[k] ELSE None]
             /\ last' = Call("delete_quest_command", quest_id, caller_id, "ok",
                             IF \E p \in quest_progress : p.quest_id = quest_id
                             THEN "cascade" ELSE "none",
                             [guild_id |-> guild_id])
             /\ UNCHANGED <<backend, now, probe, user_stats, channel_config, tasks>>

\* the commands of one guild called one after the other
NextCommands ==
    \/ create_quest("q1", 1, 10, QuestRank_NORMAL, QuestCategory_OTHER, {})
    \/ \E channel_id \in ConcChannelIds, channel_exists \in BOOLEAN :
          accept_quest_command("q1", 1, {100}, channel_id, 10, channel_exists)
    \/ \E channel_id \in ConcChannelIds, channel_exists \in BOOLEAN :
          complete_quest_command("q1", 1, channel_id, 10, channel_exists)
    \/ \E user_id \in UserIds, action \in {"view", "approve", "reject"}, permitted \in BOOLEAN :
          quest_approval("q1", user_id, action, 10, permitted)
    \/ \E a \in OptionalChannels : set_guild_channels(10, None, a, a, None, None)
    \/ Tick

SpecCommands == Init /\ [][NextCommands]_vars

\* the commands of two guilds called one after the other: quest q1 is
\* created in guild 10, the commands naming it are issued in guild 10 or 20
NextGuilds ==
    \/ create_quest("q1", 1, 10, QuestRank_NORMAL, QuestCategory_OTHER, {})
    \/ \E guild_id \in GuildIds :
          accept_quest_command("q1", 1, {100}, 7, guild_id, TRUE)
    \/ \E guild_id \in GuildIds :
          complete_quest_command("q1", 1, 7, guild_id, TRUE)
    \/ \E guild_id \in GuildIds, action \in {"approve", "reject"}, permitted \in BOOLEAN :
          quest_approval("q1", 1, action, guild_id, permitted)
    \/ \E guild_id \in GuildIds, guild_privileged \in BOOLEAN :
          delete_quest_command("q1", 2, guild_id, guild_privileged)

SpecGuilds == Init /\ [][NextGuilds]_vars

\* ================================================================ claims
\* the step is an engine call `op` (handlers never move the clock, the
\* clock tick always does)
Called(op) == now' = now /\ last'.op = op

\* the progress status of the pair named by the call in last', before and
\* after the step
PreStatus == StatusOf(get_user_quest_progress(quest_progress,
                                              last'.user_id, last'.quest_id))
PostRows == progress_rows(quest_progress', last'.user_id, last'.quest_id)

AllowedTransitions ==
    {<<ACCEPTED, COMPLETED>>, <<COMPLETED, APPROVED>>,
     <<COMPLETED, REJECTED>>, <<REJECTED, ACCEPTED>>}

\* C1: every change of a pair's stored status is accepted->completed,
\* completed->approved, completed->rejected or rejected->accepted, and an
\* approved progress is never changed again except by the deletion of its
\* quest.  (The code lets accept_quest replace an approved progress.)
C1_StatusTransitions ==
    [][\A p \in quest_progress :
          LET rows == progress_rows(quest_progress', p.user_id, p.quest_id)
          IN  /\ \A r \in rows :
                    r.status # p.status =>
                        <<p.status, r.status>> \in AllowedTransitions
              /\ p.status = APPROVED =>
                    \/ p \in quest_progress'
                    \/ rows = {} /\ last'.op = "delete"]_vars

\* C2: an accept_quest for a pair whose stored status is accepted or
\* completed returns AlreadyActive; an accept that directly follows a
\* successful accept of the same pair returns AlreadyActive; in both cases
\* exactly one progress row exists for the pair afterwards.
C2_AlreadyActive ==
    [][/\ Called("accept") /\ PreStatus \in {ACCEPTED, COMPLETED} =>
            /\ last'.result = "AlreadyActive"
            /\ Cardinality(PostRows) = 1
       /\ (/\ Called("accept") /\ last' # last
           /\ last.op = "accept" /\ last.result = "ok"
           /\ last'.quest_id = last.quest_id
           /\ last'.user_id = last.user_id) =>
            /\ last'.result = "AlreadyActive"
            /\ Cardinality(PostRows) = 1]_vars

C2_Witness ==
    /\ last.op = "accept"
    /\ last.result = "AlreadyActive"
    /\ last.pre = COMPLETED
    /\ Cardinality(progress_rows(quest_progress, last.user_id, last.quest_id)) = 1

\* C3: an accept_quest issued less than 24 hours after the rejection of the
\* pair's attempt returns CooldownActive and leaves the progress rejected.
\* (The code counts the 24 hours from accepted_at, not from the rejection.)
C3_CooldownFromRejection ==
    [][(/\ Called("accept")
        /\ rejected_at[<<last'.user_id, last'.quest_id>>] # None
        /\ now < rejected_at[<<last'.user_id, last'.quest_id>>] + Hours(24)) =>
            /\ last'.result = "CooldownActive"
            /\ \A p \in PostRows : p.status = REJECTED]_vars

\* C4: for a rejected progress of an existing, available quest, accept_quest
\* returns CooldownActive exactly when now < accepted_at + 24h of the stored
\* attempt; at accepted_at + 24h itself the cooldown check passes.
C4_CooldownBoundary ==
    [][LET quest == get_quest(quests, last'.quest_id)
           existing == get_user_quest_progress(quest_progress,
                                               last'.user_id, last'.quest_id)
       IN  (/\ Called("accept")
            /\ ~IsNone(quest) /\ quest.status = AVAILABLE
            /\ StatusOf(existing) = REJECTED) =>
               (last'.result = "CooldownActive"
                    <=> now < existing.accepted_at + Hours(24))]_vars

C4_Witness ==
    /\ last.op = "accept"
    /\ last.pre = REJECTED
    /\ last.result = "ok"
    /\ backend = "json"
    /\ last.ret.accepted_at = Hours(24)
    /\ now = Hours(24)

\* C5: for a quest with a non-empty required-role set, an accept_quest that
\* gets as far as the role check returns MissingRole and creates no progress
\* for every caller role set that contains no required role, and is not
\* rejected by the role check when the caller holds a required role.
\* (The code skips the check for the empty caller role list.)
C5_MissingRole ==
    [][\A quest_id \in QuestIds, user_id \in UserIds,
          user_role_ids \in CallerRoleSets, ch \in ChannelIds :
          LET quest == get_quest(quests, quest_id)
          IN  (/\ accept_quest(quest_id, user_id, user_role_ids, ch)
               /\ ~IsNone(quest)
               /\ quest.required_role_ids # {}
               /\ last'.result \notin {"NotFound", "NotAvailable",
                                       "AlreadyActive", "CooldownActive"}) =>
                  IF user_role_ids \cap quest.required_role_ids = {}
                  THEN /\ last'.result = "MissingRole"
                       /\ quest_progress' = quest_progress
                  ELSE last'.result # "MissingRole"]_vars

\* C6: accept_quest reports the first failing precondition in the order
\* NotFound, NotAvailable, AlreadyActive, CooldownActive, MissingRole: when
\* one of the first four conditions holds the earliest of them is reported,
\* whatever the caller's roles, and MissingRole is reported only when none of
\* them holds.
C6_ErrorOrder ==
    probe.set =>
        LET quest == probe.quest
            existing == probe.existing
            notFound == IsNone(quest)
            notAvailable == ~notFound /\ quest.status # AVAILABLE
            active == StatusOf(existing) \in {ACCEPTED, COMPLETED}
            cooldown == /\ StatusOf(existing) = REJECTED
                        /\ probe.t < existing.accepted_at + Hours(24)
        IN  IF notFound THEN probe.error = "NotFound"
            ELSE IF notAvailable THEN probe.error = "NotAvailable"
            ELSE IF active THEN probe.error = "AlreadyActive"
            ELSE IF cooldown THEN probe.error = "CooldownActive"
            ELSE probe.error \in {"MissingRole", "ok"}

C6_Witness ==
    /\ probe.set
    /\ ~IsNone(probe.quest)
    /\ probe.quest.status = AVAILABLE
    /\ probe.quest.required_role_ids # {}
    /\ probe.roles # {}
    /\ probe.roles \cap probe.quest.required_role_ids = {}
    /\ StatusOf(probe.existing) = REJECTED
    /\ probe.t < probe.existing.accepted_at + Hours(24)
    /\ probe.error = "CooldownActive"

\* C7: an accept_quest that returns an error returns one of the five error
\* kinds and no progress, and leaves quests and progress rows as they were;
\* on an id that is not stored it returns NotFound and the pair has no
\* progress row afterwards.
C7_AcceptErrorFrame ==
    [][/\ Called("accept") /\ last'.result # "ok" =>
            /\ last'.result \in {"NotFound", "NotAvailable", "AlreadyActive",
                                 "CooldownActive", "MissingRole"}
            /\ IsNone(last'.ret)
            /\ quests' = quests
            /\ quest_progress' = quest_progress
       /\ Called("accept") /\ IsNone(get_quest(quests, last'.quest_id)) =>
            /\ last'.result = "NotFound"
            /\ PostRows = {}]_vars

C7_Witness ==
    /\ last.op = "accept"
    /\ last.result = "MissingRole"
    /\ last.pre = REJECTED
    /\ \E p \in quest_progress :
          /\ p.user_id = last.user_id /\ p.quest_id = last.quest_id
          /\ p.status = REJECTED

C9_CompleteRecord ==
    [][\A quest_id \in QuestIds, user_id \in UserIds,
          proof_text \in ProofTexts, urls \in ProofImageLists :
          (/\ complete_quest(quest_id, user_id, proof_text, urls)
           /\ StatusOf(get_user_quest_progress(quest_progress,
                                               user_id, quest_id)) = ACCEPTED) =>
             LET rows == progress_rows(quest_progress', user_id, quest_id)
             IN  /\ last'.result = "ok"
                 /\ Cardinality(rows) = 1
                 /\ last'.ret \in rows
                 /\ \A p \in rows :
                       /\ p.status = COMPLETED
                       /\ p.completed_at = now
                       /\ p.proof_text = proof_text
                       /\ p.proof_image_urls = urls
                       /\ p.approval_status = "pending"]_vars

C9_Witness ==
    /\ last.op = "complete"
    /\ last.result = "ok"
    /\ last.pre = ACCEPTED
    /\ last.ret \in quest_progress
    /\ last.ret.status = COMPLETED
    /\ last.ret.completed_at = now
    /\ now > 0

\* C10: complete_quest for a pair with no progress, or with a progress whose
\* status is not accepted, returns None and leaves quests and progress rows
\* (proof fields and completed timestamp included) as they were.
C10_CompleteFailure ==
    [][Called("complete") /\ PreStatus # ACCEPTED =>
            /\ last'.result = "None"
            /\ IsNone(last'.ret)
            /\ quests' = quests
            /\ quest_progress' = quest_progress]_vars

C10_Witness ==
    /\ last.op = "complete"
    /\ last.result = "None"
    /\ last.pre = COMPLETED
    /\ \E p \in quest_progress :
          /\ p.user_id = last.user_id /\ p.quest_id = last.quest_id
          /\ p.status = COMPLETED /\ p.completed_at < now

\* C11: approve_quest succeeds exactly when the stored progress of the pair
\* is completed, and then leaves it approved (approved = TRUE) or rejected
\* (approved = FALSE) with the approval tag naming the same decision; for a
\* missing progress or any other status it returns None and leaves quests
\* and progress rows as they were.
C11_ApproveDecision ==
    [][\A quest_id \in QuestIds, user_id \in UserIds, approved \in BOOLEAN :
          approve_quest(quest_id, user_id, approved) =>
             LET decision == IF approved THEN "approved" ELSE "rejected"
                 rows == progress_rows(quest_progress', user_id, quest_id)
             IN  IF StatusOf(get_user_quest_progress(quest_progress,
                                                     user_id, quest_id)) = COMPLETED
                 THEN /\ last'.result = "ok"
                      /\ Cardinality(rows) = 1
                      /\ last'.ret \in rows
                      /\ \A p \in rows : /\ p.status = decision
                                         /\ p.approval_status = decision
                 ELSE /\ last'.result = "None"
                      /\ IsNone(last'.ret)
                      /\ quests' = quests
                      /\ quest_progress' = quest_progress]_vars

C11_Witness ==
    /\ last.op = "approve"
    /\ last.result = "ok"
    /\ last.pre = COMPLETED
    /\ last.ret \in quest_progress
    /\ last.ret.status = REJECTED
    /\ last.ret.approval_status = "rejected"

\* C12: after delete_quest(q), get_quest(q) is absent and the progress of
\* (u, q) is absent for every user u, whatever its status was; every other
\* quest and every progress row of another quest is still stored.
C12_DeleteCascade ==
    [][\A quest_id \in AllQuestIds :
          delete_quest(quest_id) =>
             /\ IsNone(get_quest(quests', quest_id))
             /\ \A u \in UserIds :
                   IsNone(get_user_quest_progress(quest_progress', u, quest_id))
             /\ \A q \in quests : q.quest_id # quest_id => q \in quests'
             /\ \A p \in quest_progress :
                   p.quest_id # quest_id => p \in quest_progress'
             /\ quests' \subseteq quests
             /\ quest_progress' \subseteq quest_progress]_vars

C12_Witness ==
    /\ last.op = "delete"
    /\ last.pre = "cascade"
    /\ IsNone(get_quest(quests, last.quest_id))
    /\ \A p \in quest_progress : p.quest_id # last.quest_id
    /\ \E q \in quests : q.quest_id # last.quest_id
    /\ \E p \in quest_progress : p.status = APPROVED
    /\ \E p \in quest_progress : p.status = ACCEPTED

\* C13: delete_quest of an id that is not stored returns True and leaves
\* quests and progress rows as they were; a delete_quest(q) that directly
\* follows a delete_quest(q) changes nothing.
C13_DeleteAbsent ==
    [][\A quest_id \in AllQuestIds :
          /\ (delete_quest(quest_id) /\ IsNone(get_quest(quests, quest_id))) =>
                /\ last'.result = "ok"
                /\ quests' = quests
                /\ quest_progress' = quest_progress
          /\ (delete_quest(quest_id) /\ last.op = "delete"
                                     /\ last.quest_id = quest_id) =>
                /\ last'.result = "ok"
                /\ quests' = quests
                /\ quest_progress' = quest_progress]_vars

C13_Witness ==
    /\ last.op = "delete"
    /\ last.pre = "absent"
    /\ last.result = "ok"
    /\ quests # {}
    /\ quest_progress # {}

\* C14: right after create_quest returns quest q, get_quest(q.quest_id) is a
\* quest with status available and the title, description, creator, guild
\* and required roles that were passed, rank "normal" and category "other"
\* by default.
C14_CreatedQuestReadable ==
    [][\A quest_id \in QuestIds, creator_id \in CreatorIds, guild_id \in GuildIds,
          required_role_ids \in RequiredRoleSets :
          create_quest(quest_id, creator_id, guild_id, QuestRank_NORMAL,
                       QuestCategory_OTHER, required_role_ids) =>
             LET q == get_quest(quests', quest_id)
             IN  /\ ~IsNone(q)
                 /\ q.status = AVAILABLE
                 /\ q.title = "title"
                 /\ q.description = "description"
                 /\ q.creator_id = creator_id
                 /\ q.guild_id = guild_id
                 /\ q.required_role_ids = required_role_ids
                 /\ q.rank = "normal"
                 /\ q.category = "other"]_vars

\* C15: every create_quest stores its quest under an identifier no stored
\* quest has: the number of stored quests grows by exactly one, every quest
\* stored before is stored unaltered after, and no progress row stored before
\* names the new identifier.
C15_UniqueQuestIds ==
    [][\A quest_id \in QuestIds, creator_id \in CreatorIds, guild_id \in GuildIds,
          required_role_ids \in RequiredRoleSets :
          create_quest(quest_id, creator_id, guild_id, QuestRank_NORMAL,
                       QuestCategory_OTHER, required_role_ids) =>
             /\ \A q \in quests : q.quest_id # quest_id
             /\ Cardinality(quests') = Cardinality(quests) + 1
             /\ quests \subseteq quests'
             /\ \A p \in quest_progress : p.quest_id # quest_id]_vars

\* C16: in every reachable state every stored quest has status available (no
\* accept, complete or approve call changes the quest's own status), and no
\* accept_quest returns NotAvailable.
C16_QuestsStayAvailable ==
    /\ \A q \in quests : q.status = AVAILABLE
    /\ last.op = "accept" => last.result # "NotAvailable"

C16_Witness ==
    /\ last.op = "accept"
    /\ last.result = "ok"
    /\ \E q \in quests : q.quest_id = last.quest_id /\ q.status = AVAILABLE
    /\ \E p \in quest_progress : p.quest_id = last.quest_id /\ p.status = APPROVED

\* C17: an accept, complete or approve call for (q, u1) leaves every progress
\* row of another user as it was and decides on the stored progress of
\* (q, u1) alone; several users hold progress on one quest at a time.
C17_UsersIndependent ==
    [][\A quest_id \in QuestIds, user_id \in UserIds :
          (/\ Called("accept") \/ Called("complete") \/ Called("approve")
           /\ last'.quest_id = quest_id
           /\ last'.user_id = user_id) =>
             LET own == {p \in quest_progress :
                            p.user_id = user_id /\ p.quest_id = quest_id}
             IN  /\ \A p \in quest_progress :
                       p.user_id # user_id => p \in quest_progress'
                 /\ \A p \in quest_progress' :
                       p.user_id # user_id => p \in quest_progress
                 /\ own = {} => last'.pre = "none"
                 /\ \A p \in own : last'.pre = p.status]_vars

C17_Witness ==
    /\ last.op = "complete"
    /\ last.result = "ok"
    /\ \E p1, p2 \in quest_progress :
          /\ p1.quest_id = p2.quest_id
          /\ p1.user_id # p2.user_id
          /\ p1.status = APPROVED
          /\ p2.status = COMPLETED
          /\ p2.user_id = last.user_id

\* C18: create_quest, accept_quest, complete_quest, approve_quest and
\* delete_quest never create, change or delete a UserStats record or a
\* ChannelConfig record; only the stats hooks change the statistics.
C18_EngineLeavesStats ==
    [][/\ (\/ \E required_role_ids \in RequiredRoleSets :
                create_quest("q1", 1, 10, QuestRank_NORMAL,
                             QuestCategory_OTHER, required_role_ids)
           \/ accept_quest("q1", 1, {100}, 7)
           \/ complete_quest("q1", 1, "done", <<"img1">>)
           \/ \E approved \in BOOLEAN : approve_quest("q1", 1, approved)
           \/ delete_quest("q1")) =>
              /\ user_stats' = user_stats
              /\ channel_config' = channel_config
       /\ user_stats' # user_stats =>
              last'.op \in {"get_user_stats", "update_quest_accepted",
                            "update_quest_completed", "update_quest_rejected"}]_vars

C18_Witness ==
    /\ last.op = "delete"
    /\ last.pre = "cascade"
    /\ \E s \in user_stats : s.quests_accepted > 0 /\ s.quests_completed > 0
    /\ \E c \in channel_config : c.quest_list_channel # None

\* C19: in every reachable state, under every interleaving of concurrent
\* accept_quest, complete_quest and approve_quest calls, the store holds at
\* most one progress row per (quest, user).
C19_OneRowPerPair ==
    \A quest_id \in AllQuestIds, user_id \in UserIds :
        Cardinality({p \in quest_progress :
                        p.quest_id = quest_id /\ p.user_id = user_id}) <= 1

C19_Witness ==
    /\ backend = "postgres"
    /\ \E t, u \in TaskIds :
          /\ t # u
          /\ tasks[t].pc = "done" /\ tasks[t].op = "complete"
          /\ tasks[t].result = "ok"
          /\ tasks[u].pc = "done" /\ tasks[u].op = "approve"
          /\ tasks[u].result = "ok"
    /\ Cardinality(quest_progress) = 1

\* C20: two concurrent accept_quest calls for the same (quest, user) that
\* both found no progress both return success; when the second of them
\* returns, exactly one progress row is stored for the pair, and it carries
\* the channel of that second call.
C20_AcceptRace ==
    [][\A t, u \in TaskIds :
          (/\ t # u
           /\ tasks[u].pc = "done" /\ tasks[u].op = "accept"
           /\ tasks[u].result = "ok" /\ tasks[u].pre = "none"
           /\ tasks[t].pc = "save" /\ tasks[t].op = "accept"
           /\ tasks[t].pre = "none"
           /\ tasks[t].quest_id = tasks[u].quest_id
           /\ tasks[t].user_id = tasks[u].user_id
           /\ tasks[u].progress.accepted_channel_id # tasks[t].ch
           /\ tasks'[t].pc = "done"
           /\ tasks'[t].result = "ok") =>
             LET rows == {p \in quest_progress' :
                             /\ p.quest_id = tasks[t].quest_id
                             /\ p.user_id = tasks[t].user_id}
             IN  /\ Cardinality(rows) = 1
                 /\ \A p \in rows : p.accepted_channel_id = tasks[t].ch]_vars

C20_Witness ==
    /\ backend = "postgres"
    /\ \E t, u \in TaskIds :
          /\ t # u
          /\ tasks[t].pc = "done" /\ tasks[t].op = "accept"
          /\ tasks[u].pc = "done" /\ tasks[u].op = "accept"
          /\ tasks[t].result = "ok" /\ tasks[u].result = "ok"
          /\ tasks[t].pre = "none" /\ tasks[u].pre = "none"
          /\ tasks[t].quest_id = tasks[u].quest_id
          /\ tasks[t].user_id = tasks[u].user_id
          /\ tasks[t].progress.accepted_channel_id = 7
          /\ tasks[u].progress.accepted_channel_id = 8
          /\ Cardinality({p \in quest_progress :
                             /\ p.quest_id = tasks[t].quest_id
                             /\ p.user_id = tasks[t].user_id}) = 1

\* C21: for every (user, guild) none of the counters quests_completed,
\* quests_accepted, quests_rejected ever decreases, under every sequence and
\* interleaving of get_user_stats and update_quest_* calls, and a stored
\* stats record is never removed.  (On the PostgreSQL store a hook writes
\* back the counters it loaded before another hook's update.)
C21_CountersMonotone ==
    [][\A s \in user_stats :
          \E r \in user_stats' :
             /\ r.user_id = s.user_id
             /\ r.guild_id = s.guild_id
             /\ r.quests_completed >= s.quests_completed
             /\ r.quests_accepted >= s.quests_accepted
             /\ r.quests_rejected >= s.quests_rejected]_vars

\* the counters of (user_id, guild_id) in stats store S, all zero when the
\* pair has no record
CountersOf(S, user_id, guild_id) ==
    IF \E s \in S : s.user_id = user_id /\ s.guild_id = guild_id
    THEN LET s == CHOOSE s \in S : s.user_id = user_id /\ s.guild_id = guild_id
         IN  <<s.quests_accepted, s.quests_completed, s.quests_rejected>>
    ELSE <<0, 0, 0>>

OthersOf(S, user_id, guild_id) ==
    {s \in S : ~(s.user_id = user_id /\ s.guild_id = guild_id)}

\* C22: a sequentially executed update_quest_accepted, update_quest_completed
\* or update_quest_rejected(user, guild) adds exactly 1 to its own counter of
\* the pair (counting from zero when the pair had no record, which is
\* created), leaves the other two counters and the records of every other
\* pair as they were.
C22_HookAddsOne ==
    [][\A user_id \in UserIds, guild_id \in GuildIds :
          LET before == CountersOf(user_stats, user_id, guild_id)
              after == CountersOf(user_stats', user_id, guild_id)
              frame == /\ \E s \in user_stats' :
                             s.user_id = user_id /\ s.guild_id = guild_id
                       /\ OthersOf(user_stats', user_id, guild_id) =
                             OthersOf(user_stats, user_id, guild_id)
          IN  /\ update_quest_accepted(user_id, guild_id) =>
                    frame /\ after = <<before[1] + 1, before[2], before[3]>>
              /\ update_quest_completed(user_id, guild_id) =>
                    frame /\ after = <<before[1], before[2] + 1, before[3]>>
              /\ update_quest_rejected(user_id, guild_id) =>
                    frame /\ after = <<before[1], before[2], before[3] + 1>>]_vars

C22_Witness ==
    /\ last.op = "update_quest_completed"
    /\ CountersOf(user_stats, last.user_id, 10) = <<1, 2, 1>>
    /\ \E s \in OthersOf(user_stats, last.user_id, 10) :
          s.guild_id = 10 /\ s.quests_rejected = 2

\* C23: get_user_stats(user, guild) on a pair with no record stores a record
\* with the three counters zero and returns it; on a pair with a record it
\* returns the stored record and changes nothing.
C23_GetOrCreate ==
    [][\A user_id \in UserIds, guild_id \in GuildIds :
          get_user_stats(user_id, guild_id) =>
             IF \E s \in user_stats : s.user_id = user_id /\ s.guild_id = guild_id
             THEN /\ user_stats' = user_stats
                  /\ last'.ret \in user_stats
                  /\ last'.ret.user_id = user_id
                  /\ last'.ret.guild_id = guild_id
             ELSE /\ last'.ret \in user_stats'
                  /\ user_stats' = user_stats \cup {last'.ret}
                  /\ last'.ret.user_id = user_id
                  /\ last'.ret.guild_id = guild_id
                  /\ last'.ret.quests_completed = 0
                  /\ last'.ret.quests_accepted = 0
                  /\ last'.ret.quests_rejected = 0]_vars

C23_Witness ==
    /\ last.op = "get_user_stats"
    /\ last.ret \in user_stats
    /\ last.ret.quests_accepted = 2
    /\ last.ret.quests_completed = 1

LeaderboardAnswerOk(p) ==
    LET r == p.result
        mine == {s \in user_stats : s.guild_id = p.guild_id}
        returned == {r[i] : i \in DOMAIN r}
        Above(x, y) == \/ x.quests_completed > y.quests_completed
                       \/ /\ x.quests_completed = y.quests_completed
                          /\ x.quests_accepted > y.quests_accepted
    IN  /\ Len(r) <= p.limit
        /\ returned \subseteq mine
        /\ Cardinality(returned) = Len(r)
        /\ \A i, j \in DOMAIN r : i < j => ~Above(r[j], r[i])
        /\ \A x \in mine \ returned : \A y \in returned : ~Above(x, y)
        /\ mine \ returned # {} => Len(r) = p.limit

\* C25: get_guild_leaderboard(guild, limit) returns at most limit entries,
\* all of that guild, ordered by quests_completed descending and then
\* quests_accepted descending, the top entries under that order; asked again
\* about the same store it returns the same list, ties included.  (The SQL
\* query of the PostgreSQL store leaves the order of ties open.)
C25_Leaderboard ==
    [][probe'.set =>
          /\ LeaderboardAnswerOk(probe')
          /\ probe.set => probe'.result = probe.result]_vars

\* the parts of C25 other than the order of ties
C25_AnswerOk == probe.set => LeaderboardAnswerOk(probe)

\* the five accessors of a guild
Accessors(C, guild_id) ==
    <<get_quest_list_channel(C, guild_id), get_quest_accept_channel(C, guild_id),
      get_quest_submit_channel(C, guild_id),
      get_quest_approval_channel(C, guild_id),
      get_notification_channel(C, guild_id)>>

\* C26: after set_guild_channels(guild, ...) each of the five accessors of
\* the guild returns the value passed for its role in that call (None for a
\* role left out, whatever was stored before), the accessors of every other
\* guild return what they returned before, and a guild without a stored
\* configuration reads None from all five.
C26_FullOverwrite ==
    [][\A guild_id \in GuildIds, a, b, c, d, e \in OptionalChannels :
          set_guild_channels(guild_id, a, b, c, d, e) =>
             /\ Accessors(channel_config', guild_id) = <<a, b, c, d, e>>
             /\ \A g \in GuildIds \ {guild_id} :
                   /\ Accessors(channel_config', g) = Accessors(channel_config, g)
                   /\ (\A x \in channel_config' : x.guild_id # g) =>
                         Accessors(channel_config', g) = <<None, None, None, None, None>>]_vars

C26_Witness ==
    /\ last.op = "set_guild_channels"
    /\ Accessors(channel_config, 10) = <<None, 7, None, 7, None>>
    /\ Accessors(channel_config, 20) = <<7, None, 7, None, 7>>

C29_StoresInterchangeable ==
    [][/\ (/\ Called("accept") \/ Called("complete") \/ Called("approve")
           /\ last'.result = "ok") =>
             LET user_id == last'.user_id
                 quest_id == last'.quest_id
                 fromJson == get_user_quest_progress(
                                 json_save_quest_progress(quest_progress, last'.ret),
                                 user_id, quest_id)
                 fromPg == get_user_quest_progress(
                               pg_save_quest_progress(quest_progress, last'.ret),
                               user_id, quest_id)
             IN  /\ fromJson = fromPg
                 /\ fromJson.accepted_at = fromPg.accepted_at
                 /\ \A t \in Instants :
                       in_cooldown([fromJson EXCEPT !.status = REJECTED], t)
                           <=> in_cooldown([fromPg EXCEPT !.status = REJECTED], t)
       /\ (Called("create") /\ IsNone(get_quest(quests, last'.quest_id))) =>
             get_quest(json_save_quest(quests, last'.ret), last'.quest_id)
                 = get_quest(pg_save_quest(quests, last'.ret), last'.quest_id)]_vars

\* the approval_status tag that goes with a progress status
TagOf(status) ==
    CASE status = ACCEPTED -> ""
      [] status = COMPLETED -> "pending"
      [] status = APPROVED -> "approved"
      [] status = REJECTED -> "rejected"
      [] OTHER -> "no tag"

\* C30: every stored progress record has a status among accepted, completed,
\* approved and rejected; its approval_status is "" when accepted, "pending"
\* when completed, "approved" when approved and "rejected" when rejected; and
\* its completed_at is set exactly when its status is not accepted.
C30_ProgressWellFormed ==
    \A p \in quest_progress :
        /\ p.status \in {ACCEPTED, COMPLETED, APPROVED, REJECTED}
        /\ p.approval_status = TagOf(p.status)
        /\ (p.completed_at # None) <=> (p.status # ACCEPTED)

\* a rejected record and an approved record are stored, and a user has just
\* accepted again a quest whose earlier attempt had been completed at an
\* earlier instant
C30_Witness ==
    /\ last.op = "accept" /\ last.result = "ok" /\ last.pre = REJECTED
    /\ \E p \in quest_progress :
          /\ p.user_id = last.user_id /\ p.quest_id = last.quest_id
          /\ p.status = ACCEPTED /\ p.completed_at = None
    /\ \E p \in quest_progress : p.status = APPROVED /\ p.completed_at # None

\* C31: in every reachable state, also where accept_quest, complete_quest or
\* approve_quest interleaves with delete_quest of the same quest, every
\* stored progress record names a stored quest and carries that quest's
\* guild_id.
C31_ReferentialIntegrity ==
    \A p \in quest_progress :
        LET quest == get_quest(quests, p.quest_id)
        IN  ~IsNone(quest) /\ p.guild_id = quest.guild_id

\* the first half of C31 alone: every stored progress record names a stored
\* quest (holds on both stores, interleaved with delete_quest or not)
C31_QuestStored ==
    \A p \in quest_progress : ~IsNone(get_quest(quests, p.quest_id))

\* the counters <<accepted, completed, rejected>> after one more call of
\* hook op
PlusOne(counters, op) ==
    <<counters[1] + (IF op = "update_quest_accepted" THEN 1 ELSE 0),
      counters[2] + (IF op = "update_quest_completed" THEN 1 ELSE 0),
      counters[3] + (IF op = "update_quest_rejected" THEN 1 ELSE 0)>>

\* C32: when update_quest_accepted, update_quest_completed and
\* update_quest_rejected calls for one (user, guild) run concurrently no
\* update is lost: the step on which a call completes its save leaves the
\* stored counter of its hook one above the stored value before that step
\* and the two other counters at their stored values, so that k completed
\* calls of a hook add exactly k and no call writes back a stale value of
\* another hook's counter.
C32_NoLostUpdate ==
    [][/\ \A t \in TaskIds :
             (hook_save(t) /\ tasks[t].op # "get_user_stats") =>
                CountersOf(user_stats', tasks[t].user_id, tasks[t].guild_id)
                  = PlusOne(CountersOf(user_stats, tasks[t].user_id,
                                       tasks[t].guild_id), tasks[t].op)
       /\ \A op \in StatsOps \ {"get_user_stats"} :
             (/\ backend = "json"
              /\ \/ op = "update_quest_accepted" /\ update_quest_accepted(1, 10)
                 \/ op = "update_quest_completed" /\ update_quest_completed(1, 10)
                 \/ op = "update_quest_rejected" /\ update_quest_rejected(1, 10)) =>
                CountersOf(user_stats', 1, 10)
                  = PlusOne(CountersOf(user_stats, 1, 10), op)]_vars

\* C33: when two approve_quest calls for the same completed progress run
\* concurrently at most one of them returns success: no approve_quest that
\* succeeds saves its decision over a progress that is stored as approved
\* or rejected already, so no submission is decided twice.
C33_OneDecision ==
    [][/\ \A t \in TaskIds :
             (/\ await_save_quest_progress(t)
              /\ tasks[t].op = "approve"
              /\ tasks'[t].result = "ok") =>
                StatusOf(get_user_quest_progress(quest_progress,
                            tasks[t].user_id, tasks[t].quest_id))
                    \notin {APPROVED, REJECTED}
       /\ \A approved \in BOOLEAN :
             (approve_quest("q1", 1, approved) /\ last'.result = "ok") =>
                StatusOf(get_user_quest_progress(quest_progress, 1, "q1"))
                    \notin {APPROVED, REJECTED}]_vars

\* C34: for every (user, guild), after any sequence of accept, complete,
\* approve, reject and delete commands executed one after the other,
\* quests_completed + quests_rejected <= quests_accepted, so the completion
\* rate quests_completed / quests_accepted shown by the user_stats command
\* never exceeds 100%.
C34_RateAtMostOne ==
    \A s \in user_stats :
        s.quests_completed + s.quests_rejected <= s.quests_accepted

\* C35: guilds are isolated tenants: a command issued in guild B never
\* accepts, approves, rejects or deletes a quest whose guild_id is another
\* guild's, and the statistics recorded for a transition go to the
\* (user, guild) record of the quest's guild.
C35_GuildIsolation ==
    [][\A guild_id \in GuildIds :
          LET quest == get_quest(quests, "q1")
              counted == CountersOf(user_stats', 1, quest.guild_id)
                             # CountersOf(user_stats, 1, quest.guild_id)
          IN  /\ (/\ accept_quest_command("q1", 1, {100}, 7, guild_id, TRUE)
                  /\ last'.result = "ok") =>
                     quest.guild_id = guild_id /\ counted
              /\ \A action \in {"approve", "reject"}, permitted \in BOOLEAN :
                    (/\ quest_approval("q1", 1, action, guild_id, permitted)
                     /\ last'.result = action) =>
                        quest.guild_id = guild_id /\ counted
              /\ \A guild_privileged \in BOOLEAN :
                    (/\ delete_quest_command("q1", 2, guild_id, guild_privileged)
                     /\ last'.result = "ok") =>
                        quest.guild_id = guild_id]_vars

\* C36: approve_quest changes only the status and the approval_status of the
\* stored progress: proof_text, proof_image_urls, accepted_at, completed_at
\* and accepted_channel_id (and the keys) stay as stored; complete_quest
\* leaves accepted_at and accepted_channel_id as stored.
C36_DecisionFrame ==
    [][/\ (Called("approve") /\ last'.result = "ok") =>
             LET before == get_user_quest_progress(quest_progress,
                               last'.user_id, last'.quest_id)
                 after == get_user_quest_progress(quest_progress',
                              last'.user_id, last'.quest_id)
             IN  /\ ~IsNone(before) /\ ~IsNone(after)
                 /\ [after EXCEPT !.status = before.status,
                                  !.approval_status = before.approval_status]
                        = before
       /\ (Called("complete") /\ last'.result = "ok") =>
             LET before == get_user_quest_progress(quest_progress,
                               last'.user_id, last'.quest_id)
                 after == get_user_quest_progress(quest_progress',
                              last'.user_id, last'.quest_id)
             IN  /\ ~IsNone(before) /\ ~IsNone(after)
                 /\ after.accepted_at = before.accepted_at
                 /\ after.accepted_channel_id = before.accepted_channel_id]_vars

\* a progress accepted at one instant and completed with proof at a later
\* one has just been decided
C36_Witness ==
    /\ last.op = "approve" /\ last.result = "ok"
    /\ \E p \in quest_progress :
          /\ p.user_id = last.user_id /\ p.quest_id = last.quest_id
          /\ p.status \in {APPROVED, REJECTED}
          /\ p.proof_text = "done" /\ p.proof_image_urls = <<"img1">>
          /\ p.completed_at > p.accepted_at
          /\ p.accepted_channel_id = 7

\* the creators asked about: the creator of the stored quests and another
\* member
AskingCreators == CreatorIds \cup {2}

\* get_pending_approvals(creator_id, guild_id) over stores Q, P has an entry
\* for (quest_id, user_id)
HasPending(Q, P, creator_id, guild_id, quest_id, user_id) ==
    \E e \in get_pending_approvals(Q, P, creator_id, guild_id) :
        e[1] = quest_id /\ e[2] = user_id

\* get_pending_approvals has an entry for (quest, user) exactly when the
\* quest is stored with that creator and the progress of (quest, user) has
\* that guild and status completed
PendingIffCompleted ==
    \A creator_id \in AskingCreators, guild_id \in GuildIds,
       quest_id \in QuestIds, user_id \in UserIds :
        LET quest == get_quest(quests, quest_id)
            progress == get_user_quest_progress(quest_progress, user_id, quest_id)
        IN  HasPending(quests, quest_progress, creator_id, guild_id,
                       quest_id, user_id)
              <=> /\ ~IsNone(quest) /\ quest.creator_id = creator_id
                  /\ ~IsNone(progress) /\ progress.guild_id = guild_id
                  /\ progress.status = COMPLETED

\* the entry of (quest, user) appears when complete_quest succeeds and is
\* gone when approve_quest decides it or the quest is deleted
PendingAppearsAndGoes ==
    /\ (Called("complete") /\ last'.result = "ok") =>
          LET quest == get_quest(quests', last'.quest_id)
          IN  /\ ~HasPending(quests, quest_progress, quest.creator_id,
                             last'.ret.guild_id, last'.quest_id, last'.user_id)
              /\ HasPending(quests', quest_progress', quest.creator_id,
                            last'.ret.guild_id, last'.quest_id, last'.user_id)
    /\ (Called("approve") /\ last'.result = "ok") =>
          \A creator_id \in AskingCreators, guild_id \in GuildIds :
              ~HasPending(quests', quest_progress', creator_id, guild_id,
                          last'.quest_id, last'.user_id)
    /\ Called("delete") =>
          \A creator_id \in AskingCreators, guild_id \in GuildIds,
             user_id \in UserIds :
              ~HasPending(quests', quest_progress', creator_id, guild_id,
                          last'.quest_id, user_id)

\* C37: in every reachable state get_pending_approvals(creator, guild) has an
\* entry for (quest, user) if and only if the quest is stored with that
\* creator and the progress of (quest, user) has that guild and status
\* completed; the entry appears when complete_quest succeeds and disappears
\* when approve_quest decides it or the quest is deleted.
C37_PendingApprovals ==
    []PendingIffCompleted /\ [][PendingAppearsAndGoes]_vars

\* user 1's submission is pending for the creator in guild 10 while user 2's
\* has been decided, and a submission was decided or deleted before
C37_Witness ==
    /\ last.op = "complete" /\ last.result = "ok"
    /\ get_pending_approvals(quests, quest_progress, 1, 10)
          = {<<"q1", 1, "done", <<"img1">>, "title">>}
    /\ get_pending_approvals(quests, quest_progress, 2, 10) = {}
    /\ get_pending_approvals(quests, quest_progress, 1, 20) = {}
    /\ \E p \in quest_progress : p.user_id = 2 /\ p.status \in {APPROVED, REJECTED}

\* C38: the leaderboard command bounds the result for every integer limit a
\* user can supply, 0 and negative values included: the limit handed to the
\* store is between 1 and 25, the store answers, and the command never
\* obtains more than 25 entries.
C38_LimitBounded ==
    probe.set =>
        /\ probe.handed \in 1..25
        /\ ~probe.raised
        /\ Len(probe.result) <= 25
====
